---- MODULE Spec2Model ----
(***************************************************************************)
(* Template matching and execution engine of artnikel/nuclei: the headless *)
(* tab semaphore, the HTTP executor (per-host rate limiter, retries,       *)
(* client-side redirects), MatchTemplate (flow and first-match-wins), the  *)
(* template variable scope and the word matcher.                           *)
(***************************************************************************)
EXTENDS Integers, Sequences, FiniteSets, TLC

VARIABLES
    \* ---- operator settings and the context handed to the executors
    advanced,         \* AdvancedSettingsChecker value in use
    ctxErr,           \* ctx.Err(): "nil", "canceled" or "deadline"
    \* ---- headless package state and DoHeadlessRequest calls
    once,             \* sync.Once of InitHeadless: "fresh" or "done"
    browserCtx,       \* "nil" or "ctx"
    initErr,          \* "nil" or "err"
    hlpc,             \* position of each DoHeadlessRequest call
    headlessSem,      \* tokens held in the channel each call made for itself
    hlret,            \* what each call returned: "none", "html", "err"
    tabParent,        \* the browser context each open tab was derived from
    allocs,           \* history: allocators created since the last reset
    reinitPc,         \* position of a ForceReinitHeadless call
    reinits,          \* how many ForceReinitHeadless calls have completed
    \* ---- HTTP executor: shared limiter table and matchHTTPRequest calls
    hostLimiters,     \* hostname -> NoLimiter or the limiter's token bucket
    limitersMade,     \* history: every limiter rate.NewLimiter returned, with its host
    evLimiter,        \* the limiter getHostLimiter returned to each evaluation, 0 before
    evAdvanced,       \* the settings passed to each evaluation's executor
    httpClient,       \* the shared *http.Client: nil, or the timeout it was built with
    evHost,           \* hostname of the base URL each call is made with
    reqPath,          \* req.Path of the request each call evaluates
    serverRedirects,  \* top.location targets found in the pages of the targets
    hpc,              \* position of each matchHTTPRequest call
    pathIdx,          \* index of the path being tried
    currentURL,       \* currentURL of the redirect loop
    visitedRedirects, \* visitedRedirects of the redirect loop
    redirectCount,    \* redirectCount of the redirect loop
    attempt,          \* attempt of doHTTPRequestWithRetry
    httpResult,       \* HTTPResult of the last doHTTPRequestWithRetry call
    hret,             \* what each call returned: "none", "true", "false"
    chain,            \* history: URLs handed to doRequest for the current path
    errLog,           \* history: what each client.Do since the last limiter.Wait gave
    waits,            \* history: the backoff waits of the doHTTPRequestWithRetry call
    \* ---- templates.MatchTemplate: one evaluation of one template
    tmplRequests,     \* tmpl.Requests
    tmplFlow,         \* tmpl.Flow split on "&&"; <<>> is the empty string
    htmlContent,      \* the page fetched for the target, "" when there is none
    mpc,              \* position of the evaluation
    mpos,             \* index of the flow part or of the request being tried
    mret,             \* what MatchTemplate returned
    stepLog,          \* history: the requests evaluated and what each gave
    mtVariables,      \* tmpl.Variables of the template being evaluated
    sentPaths,        \* history: the path each evaluated request was sent with
    \* ---- the template's Variables map under concurrent evaluations
    variant,          \* which MatchTemplate the workers run: "legacy" or "current"
    tmplVariables,    \* tmpl.Variables, shared by every evaluation of the template
    vTarget,          \* the target each worker evaluates the template against
    vpc,              \* position of each worker's evaluation
    localVars,        \* the vars map local to a matchHTTPRequest call
    requestedURL,     \* history: the path each worker requested, variables substituted
    fatal,            \* the runtime stopped the process on a concurrent map access
    \* ---- a word matcher of the template and its evaluation
    tmplMatcher,      \* the Matcher as the template holds it
    loadedMatcher,    \* history: the Matcher as LoadTemplate built it
    respBody,         \* body of the response the matcher was last checked against
    wmResult,         \* what checkSingleMatcher last returned: "none", "true", "false"
    \* ---- scanner.StartWorkers and the goroutine that feeds it
    targetsCh,        \* the targets buffered in targetsCh, oldest first
    chClosed,         \* targetsCh has been closed
    fed,              \* how many targets the feeder has sent
    wkpc,             \* position of each worker goroutine
    wkTarget,         \* the target a worker is processing, 0 when none
    lateStart,        \* history: targets whose processFn began after cancellation
    doneCh,           \* doneCh has been closed
    feedpc,           \* position of the goroutine that feeds targetsCh
    calls,            \* history: processFn calls made, per template and target
    scanTpl,          \* index in allTemplates of the template runScan is at
    scanpc,           \* position of runScan
    \* ---- templates.FindMatchingTemplates: one check of one target
    fTotal,           \* len(templates)
    hostOk,           \* what templateMatchesHost says of each template
    fpc,              \* position of the calling goroutine
    fidx,             \* index of the template the loop is at
    fsem,             \* number of tokens in sem
    gpc,              \* position of the goroutine started for each template
    counter,          \* the atomic progress counter
    gcur,             \* current of each goroutine: what counter.Add(1) gave it
    progressLog,      \* history: the counts given to progressCallback, in order
    matchedTemplates, \* the result slice
    fret,             \* what FindMatchingTemplates returned
    fetchOut,         \* how the initial headless fetch ended
    interrupted,      \* history: an evaluation was skipped or ended by the context
    sIn,              \* substituteVariables: the string given, as a sequence of tokens
    sMap,             \* the variable map given
    spc,              \* "off", "new", "once", "repeated", "reapplied"
    sOut,             \* the string the first call returned
    sAgain,           \* what a second call with the same arguments returned
    sTwice,           \* what a call on the first call's result returned
    rawBlocks,        \* LoadTemplate: the type field of each block of each list of the file
    ldpc,             \* "off", "file", "loaded"
    ldRequests,       \* tmpl.Requests
    cmResults,        \* checkMatchers: what checkSingleMatcher gives for each matcher
    cmCondition,      \* the request's MatchersCondition
    cmOut,            \* what checkMatchers returned, "none" before
    dnsPath,          \* matchDNSRequest: req.Path[0], "none" without a path
    dnsLookupFails,   \* whether the resolver fails for the host
    dnsMatchersPass,  \* what checkMatchers gives on the records
    dnsRet,           \* what matchDNSRequest returned
    offHtml,          \* matchOfflineHTML: the pre-fetched page
    offMatchers,      \* req.Matchers, all of type word
    offCondition,     \* req.MatchersCondition
    offOut,           \* what matchOfflineHTML returned
    onlineOut,        \* what checkMatchers gives on a response with that body
    rdpc,             \* redirect loop of one path: position
    rdURL,            \* currentURL
    rdVisited,        \* visitedRedirects
    rdCount,          \* redirectCount
    rdRequests,       \* history: doRequest calls made for the path
    retryDelay,       \* advanced.RetryDelay in seconds
    rtFile,           \* ReadTargets: whether the file opens, its lines, whether the scanner fails
    rtpc,             \* position of the producer goroutine
    rtNext,           \* how many lines scanner.Scan() has given
    rtDelivered,      \* history: the lines received from out, by line number
    rtErrc,           \* what has been sent on errc
    rtErrCloses,      \* how many times errc was closed
    rtOutCloses,      \* how many times out was closed
    rtConsumer        \* whether the consumer still receives from out

hlVars == <<once, browserCtx, initErr, hlpc, headlessSem, hlret, tabParent, allocs,
            reinitPc, reinits>>
httpVars == <<hostLimiters, limitersMade, evLimiter, evAdvanced, httpClient, evHost, reqPath, serverRedirects, hpc, pathIdx, currentURL,
              visitedRedirects, redirectCount, attempt, httpResult, hret,
              chain, errLog, waits>>
mtVars == <<tmplRequests, tmplFlow, htmlContent, mpc, mpos, mret, stepLog, mtVariables,
            sentPaths>>
vsVars == <<variant, tmplVariables, vTarget, vpc, localVars, requestedURL, fatal>>
wmVars == <<tmplMatcher, loadedMatcher, respBody, wmResult>>
swVars == <<targetsCh, chClosed, fed, wkpc, wkTarget, lateStart, doneCh, feedpc, calls, scanTpl,
           scanpc>>
fmVars == <<fTotal, hostOk, fpc, fidx, fsem, gpc, counter, gcur, progressLog,
            matchedTemplates, fret, fetchOut, interrupted>>
sbVars == <<sIn, sMap, spc, sOut, sAgain, sTwice>>
ldVars == <<rawBlocks, ldpc, ldRequests>>
cmVars == <<cmResults, cmCondition, cmOut>>
dnsVars == <<dnsPath, dnsLookupFails, dnsMatchersPass, dnsRet>>
ofVars == <<offHtml, offMatchers, offCondition, offOut, onlineOut>>
rdVars == <<rdpc, rdURL, rdVisited, rdCount, rdRequests>>
bkVars == <<retryDelay>>
rtVars == <<rtFile, rtpc, rtNext, rtDelivered, rtErrc, rtErrCloses, rtOutCloses, rtConsumer>>

\* ---- bounds of the model
NumCallers == 3
MaxTabs == 2
NumEvals == 2
MaxPaths == 2
MaxRetries == 2
MaxBurst == 2
MaxReq == 2
MaxFlow == 2
NumWorkers == 2
MaxWords == 2
MaxTargets == 3
MaxTemplates == 2
MaxWorkers == 2
MaxReinits == 1
MaxTimeout == 2
MaxStr == 2
MaxRaw == 1
MaxMatchers == 3
\* The largest RetryDelay the settings page is given, in seconds.
MaxDelay == 2
\* Capacity of targetsChan, make(chan string, 1000), scaled down.
ChanCap == 2

Callers == 1..NumCallers

(***************************************************************************)
(* Settings.  Every specification fixes the fields it does not exercise.   *)
(***************************************************************************)
DefaultAdvanced ==
    [Workers |-> 1, Retries |-> 1, HeadlessTabs |-> 1,
     RateLimiterBurstSize |-> 1]

(***************************************************************************)
(* headless.InitHeadless and headless.DoHeadlessRequest                    *)
(***************************************************************************)
\* What no step of the headless package touches.
HLOthers ==
    UNCHANGED <<advanced, ctxErr, httpVars, mtVars, vsVars, wmVars, swVars, fmVars, sbVars, ldVars, cmVars,
                dnsVars, ofVars, rdVars, bkVars, rtVars>>

InitHLState ==
    /\ once = "fresh"
    /\ browserCtx = "nil"
    /\ initErr = "nil"
    /\ hlpc = [c \in Callers |-> "idle"]
    /\ headlessSem = [c \in Callers |-> 0]
    /\ hlret = [c \in Callers |-> "none"]
    /\ tabParent = [c \in Callers |-> "none"]
    /\ allocs = 0
    /\ reinitPc = "idle"
    /\ reinits = 0

\* DoHeadlessRequest is entered: the call is about to run InitHeadless.
HLCall(c) ==
    /\ hlpc[c] = "idle"
    /\ hlpc' = [hlpc EXCEPT ![c] = "init"]
    /\ UNCHANGED <<once, browserCtx, initErr, headlessSem, hlret, tabParent, allocs,
                   reinitPc, reinits>>
    /\ HLOthers

\* once.Do(...): the first caller creates the allocator and the browser
\* context; chromedp.Run(browserCtx) succeeds or fails.
InitHeadless(c, runOk) ==
    IF once = "fresh"
    THEN /\ once' = "done"
         /\ browserCtx' = IF runOk THEN "ctx" ELSE "nil"
         /\ initErr' = IF runOk THEN "nil" ELSE "err"
         /\ allocs' = allocs + 1
    ELSE UNCHANGED <<once, browserCtx, initErr, allocs>>

\* The capacity of the channel the call gets from
\* headlessSem := make(chan struct{}, tabs): the channel is made by the call
\* itself, so no other call ever sends to or receives from it.
SemCapacity(c) == advanced.HeadlessTabs

\* if err := InitHeadless(); err != nil { return } ; if browserCtx == nil
\* { return } ; headlessSem := make(chan struct{}, tabs)
HLInit(c) ==
    /\ hlpc[c] = "init"
    /\ \E runOk \in BOOLEAN :
          /\ InitHeadless(c, runOk)
          /\ IF initErr' # "nil" \/ browserCtx' = "nil"
             THEN /\ hlpc' = [hlpc EXCEPT ![c] = "done"]
                  /\ hlret' = [hlret EXCEPT ![c] = "err"]
             ELSE /\ hlpc' = [hlpc EXCEPT ![c] = "sem"]
                  /\ hlret' = hlret
    /\ headlessSem' = [headlessSem EXCEPT ![c] = 0]
    /\ UNCHANGED <<tabParent, reinitPc, reinits>>
    /\ HLOthers

\* headlessSem <- struct{}{} : blocks while the call's channel is full;
\* then chromedp.NewContext(browserCtx) opens the tab.
HLAcquire(c) ==
    /\ hlpc[c] = "sem"
    /\ headlessSem[c] < SemCapacity(c)
    /\ headlessSem' = [headlessSem EXCEPT ![c] = @ + 1]
    /\ hlpc' = [hlpc EXCEPT ![c] = "tab"]
    /\ tabParent' = [tabParent EXCEPT ![c] = browserCtx]
    /\ UNCHANGED <<once, browserCtx, initErr, hlret, allocs, reinitPc, reinits>>
    /\ HLOthers

\* chromedp.Run(tabCtx, ...): navigation ends with the HTML or an error
\* (the tab's own timeout included); a tab whose browser context is nil or
\* torn down gives no page.
HLRun(c) ==
    /\ hlpc[c] = "tab"
    /\ \E ok \in (IF tabParent[c] = "ctx" THEN BOOLEAN ELSE {FALSE}) :
          hlret' = [hlret EXCEPT ![c] = IF ok THEN "html" ELSE "err"]
    /\ hlpc' = [hlpc EXCEPT ![c] = "teardown"]
    /\ UNCHANGED <<once, browserCtx, initErr, headlessSem, tabParent, allocs,
                   reinitPc, reinits>>
    /\ HLOthers

\* deferred timeoutCancel() and cancel(): the tab is torn down.
HLTeardown(c) ==
    /\ hlpc[c] = "teardown"
    /\ hlpc' = [hlpc EXCEPT ![c] = "release"]
    /\ tabParent' = [tabParent EXCEPT ![c] = "none"]
    /\ UNCHANGED <<once, browserCtx, initErr, headlessSem, hlret, allocs, reinitPc, reinits>>
    /\ HLOthers

\* deferred <-headlessSem, then the call returns.
HLRelease(c) ==
    /\ hlpc[c] = "release"
    /\ headlessSem[c] > 0
    /\ headlessSem' = [headlessSem EXCEPT ![c] = @ - 1]
    /\ hlpc' = [hlpc EXCEPT ![c] = "done"]
    /\ UNCHANGED <<once, browserCtx, initErr, hlret, tabParent, allocs, reinitPc, reinits>>
    /\ HLOthers

\* The calls that hold a token and have not torn their tab down.
OpenTabs == {c \in Callers : hlpc[c] \in {"tab", "teardown"}}

NextHL ==
    \E c \in Callers :
        \/ HLCall(c)
        \/ HLInit(c)
        \/ HLAcquire(c)
        \/ HLRun(c)
        \/ HLTeardown(c)
        \/ HLRelease(c)

(***************************************************************************)
(* The context handed down from the top-level check or scan                *)
(***************************************************************************)
\* cancel() is called (Stop button) or the deadline of context.WithTimeout
\* passes.
CtxCancel ==
    /\ ctxErr = "nil"
    /\ ctxErr' \in {"canceled", "deadline"}
    /\ UNCHANGED <<advanced, hlVars, httpVars, mtVars, vsVars, wmVars, swVars, fmVars, sbVars, ldVars, cmVars,
                dnsVars, ofVars, rdVars, bkVars, rtVars>>

\* ForceReinitHeadless up to cancelFunc(): the allocator's context is torn
\* down, and with it the browser context and every tab derived from it; the
\* package variables still hold the old values.  No lock is taken.
ReinitCancel ==
    /\ reinitPc = "idle"
    /\ reinits < MaxReinits
    /\ browserCtx' = IF browserCtx = "ctx" THEN "dead" ELSE browserCtx
    /\ tabParent' = [c \in Callers |-> IF tabParent[c] = "ctx" THEN "killed"
                                       ELSE tabParent[c]]
    /\ reinitPc' = "cancelled"
    /\ UNCHANGED <<once, initErr, hlpc, headlessSem, hlret, allocs, reinits>>
    /\ HLOthers

\* ForceReinitHeadless, the rest: once = sync.Once{}, allocCtx, browserCtx,
\* cancelFunc and initErr are set to nil.
ReinitReset ==
    /\ reinitPc = "cancelled"
    /\ once' = "fresh"
    /\ browserCtx' = "nil"
    /\ initErr' = "nil"
    /\ allocs' = 0
    /\ reinitPc' = "idle"
    /\ reinits' = reinits + 1
    /\ UNCHANGED <<hlpc, headlessSem, hlret, tabParent>>
    /\ HLOthers

\* DoHeadlessRequest calls of a check whose context can be cancelled and
\* whose Stop handler calls ForceReinitHeadless.
NextBrowser ==
    \/ \E c \in Callers :
          \/ HLCall(c)
          \/ HLInit(c)
          \/ HLAcquire(c)
          \/ HLRun(c)
          \/ HLTeardown(c)
          \/ HLRelease(c)
    \/ ReinitCancel
    \/ ReinitReset
    \/ CtxCancel

(***************************************************************************)
(* HTTP executor: getHostLimiter, doHTTPRequestWithRetry, matchHTTPRequest *)
(***************************************************************************)
Evals == 1..NumEvals
Hosts == {"h1", "h2"}

\* Paths a request declares and top.location targets a body may hold, as
\* character sequences; <<>> is the empty string.
Paths == {<<"/", "x">>, <<"/", "x", "/">>, <<"x">>, <<"/", "y">>}

maxRedirects == 5

\* Errors: the message and what net.Error.Timeout / DNSError.Temporary say.
NoError == [msg |-> "", timeout |-> FALSE, temporary |-> FALSE]
ErrRefused == [msg |-> "connection refused", timeout |-> FALSE, temporary |-> FALSE]
ErrScheme == [msg |-> "unsupported protocol scheme", timeout |-> FALSE, temporary |-> FALSE]
ErrReset == [msg |-> "connection reset by peer", timeout |-> FALSE, temporary |-> FALSE]
ErrCanceled == [msg |-> "context canceled", timeout |-> FALSE, temporary |-> FALSE]
ErrDeadline == [msg |-> "context deadline exceeded", timeout |-> TRUE, temporary |-> FALSE]

\* ctx.Err()
CtxError == IF ctxErr = "canceled" THEN ErrCanceled ELSE ErrDeadline

\* The fragments isRetryableError looks for; a message of the model holds
\* one of them exactly when it is one of them.
retryableErrors ==
    {"connection refused", "connection reset by peer", "no route to host",
     "network is unreachable", "timeout", "temporary failure",
     "server misbehaving", "connection timed out", "i/o timeout"}

isRetryableError(err) ==
    /\ err # NoError
    /\ \/ err.msg \in retryableErrors
       \/ err.timeout
       \/ err.temporary

\* strings.TrimRight(s, "/")
RECURSIVE TrimRight(_)
TrimRight(s) ==
    IF s # <<>> /\ s[Len(s)] = "/" THEN TrimRight(SubSeq(s, 1, Len(s) - 1)) ELSE s

\* A URL of the model: the host and the path.
normalizeURL(u) == [u EXCEPT !.path = TrimRight(u.path)]

\* base.ResolveReference(ref) for a base URL scheme://host and a path
\* reference: a reference without a leading slash resolves against the root.
buildFullURL(base, path) ==
    [host |-> base,
     path |-> IF path # <<>> /\ Head(path) = "/" THEN path ELSE <<"/">> \o path]

\* The text between top.location=" and the next quote, "" when there is none;
\* a body of the model is given by that text.
parseJSRedirect(body) == body.redirect

\* Mutant: the map lookup never finds the host.
LimiterExists_Never(host) == FALSE
\* limiter, ok := hostLimiters[host]
LimiterExists(host) == hostLimiters[host].made

\* getHostLimiter: create-if-absent under hostLimitersMu; a new limiter is a
\* new object (id) and starts with a full bucket of RateLimiterBurstSize
\* tokens.
getHostLimiter(host, adv) ==
    IF LimiterExists(host)
    THEN hostLimiters
    ELSE [hostLimiters EXCEPT ![host] =
             [made |-> TRUE, id |-> Cardinality(limitersMade) + 1,
              tokens |-> adv.RateLimiterBurstSize,
              burst |-> adv.RateLimiterBurstSize]]

\* getHTTPClient: the shared client is built by newInsecureHTTPClient from
\* the settings of the first call and returned as it is afterwards.
getHTTPClient(adv) ==
    IF httpClient = [made |-> FALSE, Timeout |-> 0]
    THEN [made |-> TRUE, Timeout |-> adv.Timeout]
    ELSE httpClient

\* One settings value for every evaluation: that of the check in progress.
OneSetting ==
    [e \in Evals |-> [RateLimiterBurstSize |-> advanced.RateLimiterBurstSize,
                      Timeout |-> 1]]

\* Mutant: the loop head lets one more redirect through.
RedirectBoundReached_Late(count) == count > maxRedirects + 1
\* if redirectCount > maxRedirects { break }
RedirectBoundReached(count) == count > maxRedirects

\* Mutant: the visited set is looked up with the URL as it stands.
AlreadyVisited_Raw(visited, url) == url \in visited

\* visitedRedirects[normalizeURL(currentURL)] is present
AlreadyVisited(visited, url) == normalizeURL(url) \in visited

\* Mutant: every backoff lasts RetryDelay.
waitTime_Constant(n) == retryDelay
\* waitTime := advanced.RetryDelay * time.Duration(attempt+1), in seconds
waitTime(n) == retryDelay * (n + 1)

\* Mutant: the retry loop runs one attempt too many.
LastAttempt_OneMore(n) == n = advanced.Retries + 1

\* for attempt := 0; attempt <= advanced.Retries: the attempt just made was
\* the last one
LastAttempt(n) == n = advanced.Retries

\* Mutant: a match does not end the call.
ReturnsOnMatch_Never(matched) == FALSE
\* if matched { return true, nil }
ReturnsOnMatch(matched) == matched

\* Mutant: a response does not end the retry loop by itself.
ResponseEndsCall_Never(stage) == FALSE
\* if err == nil { ... return HTTPResult{...} }: client.Do gave a response,
\* whether or not its body could be read.
ResponseEndsCall(stage) == stage \in {"ok", "read"}

HTTPOthers ==
    UNCHANGED <<advanced, ctxErr, hlVars, mtVars, vsVars, wmVars, swVars, fmVars, sbVars, ldVars, cmVars,
                dnsVars, ofVars, rdVars, bkVars, rtVars>>

\* var result HTTPResult before doRequest has run
NoResult == [Error |-> NoError, matched |-> FALSE, redirect |-> <<>>, Retries |-> 0]

InitHTTPState ==
    /\ hostLimiters = [h \in Hosts |-> [made |-> FALSE, id |-> 0, tokens |-> 0, burst |-> 0]]
    /\ limitersMade = {}
    /\ evLimiter = [e \in Evals |-> 0]
    /\ httpClient = [made |-> FALSE, Timeout |-> 0]
    /\ pathIdx = [e \in Evals |-> 0]
    /\ currentURL = [e \in Evals |-> [host |-> evHost[e], path |-> <<>>]]
    /\ visitedRedirects = [e \in Evals |-> {}]
    /\ redirectCount = [e \in Evals |-> 0]
    /\ attempt = [e \in Evals |-> 0]
    /\ httpResult = [e \in Evals |-> NoResult]
    /\ hret = [e \in Evals |-> "none"]
    /\ chain = [e \in Evals |-> <<>>]
    /\ errLog = [e \in Evals |-> <<>>]
    /\ waits = [e \in Evals |-> <<>>]

\* The next path of req.Path: a fresh visited set and redirect count; after
\* the last path matchHTTPRequest returns false.
StartPath(e, i) ==
    IF i <= Len(reqPath[e])
    THEN /\ pathIdx' = [pathIdx EXCEPT ![e] = i]
         /\ currentURL' = [currentURL EXCEPT ![e] = buildFullURL(evHost[e], reqPath[e][i])]
         /\ visitedRedirects' = [visitedRedirects EXCEPT ![e] = {}]
         /\ redirectCount' = [redirectCount EXCEPT ![e] = 0]
         /\ chain' = [chain EXCEPT ![e] = <<>>]
         /\ hpc' = [hpc EXCEPT ![e] = "loop"]
         /\ hret' = hret
    ELSE /\ hpc' = [hpc EXCEPT ![e] = "done"]
         /\ hret' = [hret EXCEPT ![e] = "false"]
         /\ UNCHANGED <<pathIdx, currentURL, visitedRedirects, redirectCount, chain>>

\* matchHTTPRequest up to the first path: client := getHTTPClient(advanced),
\* the variables,
\* limiter := getHostLimiter(parsedBaseURL.Hostname(), advanced).
HStart(e) ==
    /\ hpc[e] = "idle"
    /\ httpClient' = getHTTPClient(evAdvanced[e])
    /\ hostLimiters' = getHostLimiter(evHost[e], evAdvanced[e])
    /\ evAdvanced' = evAdvanced
    /\ limitersMade' = limitersMade \cup
          {[host |-> evHost[e], id |-> hostLimiters'[evHost[e]].id] :
              x \in IF LimiterExists(evHost[e]) THEN {} ELSE {1}}
    /\ evLimiter' = [evLimiter EXCEPT ![e] = hostLimiters'[evHost[e]].id]
    /\ StartPath(e, 1)
    /\ UNCHANGED <<evHost, reqPath, serverRedirects, attempt, httpResult, errLog, waits>>
    /\ HTTPOthers

\* Head of the redirect loop: the redirect bound, then the visited set.
HLoop(e) ==
    /\ hpc[e] = "loop"
    /\ IF \/ RedirectBoundReached(redirectCount[e])
          \/ AlreadyVisited(visitedRedirects[e], currentURL[e])
       THEN StartPath(e, pathIdx[e] + 1)
       ELSE /\ visitedRedirects' = [visitedRedirects EXCEPT ![e] =
                                       @ \cup {normalizeURL(currentURL[e])}]
            /\ hpc' = [hpc EXCEPT ![e] = "wait"]
            /\ UNCHANGED <<pathIdx, currentURL, redirectCount, chain, hret>>
    /\ UNCHANGED <<hostLimiters, evHost, reqPath, serverRedirects, attempt, httpResult, errLog, waits>>
    /\ UNCHANGED <<limitersMade, evLimiter, evAdvanced, httpClient>>
    /\ HTTPOthers

\* doRequest: limiter.Wait(ctx) takes one token of the base host's bucket, or
\* fails when the context is done (the chain of this path is given up); then
\* doHTTPRequestWithRetry starts with attempt 0.
HWait(e) ==
    /\ hpc[e] = "wait"
    /\ IF ctxErr # "nil"
       THEN /\ StartPath(e, pathIdx[e] + 1)
            /\ UNCHANGED <<hostLimiters, attempt, errLog, waits>>
       ELSE /\ hostLimiters[evHost[e]].tokens > 0
            /\ hostLimiters' = [hostLimiters EXCEPT ![evHost[e]].tokens = @ - 1]
            /\ attempt' = [attempt EXCEPT ![e] = 0]
            /\ errLog' = [errLog EXCEPT ![e] = <<>>]
            /\ waits' = [waits EXCEPT ![e] = <<>>]
            /\ chain' = [chain EXCEPT ![e] = Append(@, currentURL[e])]
            /\ hpc' = [hpc EXCEPT ![e] = "do"]
            /\ UNCHANGED <<pathIdx, currentURL, visitedRedirects, redirectCount, hret>>
    /\ UNCHANGED <<evHost, reqPath, serverRedirects, httpResult>>
    /\ UNCHANGED <<limitersMade, evLimiter, evAdvanced, httpClient>>
    /\ HTTPOthers

\* What client.Do and reading the body can give: a response with its body, a
\* response whose body cannot be read, or no response; with the context done
\* client.Do fails with ctx.Err().
Outcomes ==
    IF ctxErr # "nil"
    THEN {[stage |-> "do", err |-> CtxError, matched |-> FALSE, redirect |-> <<>>]}
    ELSE {[stage |-> "ok", err |-> NoError, matched |-> m, redirect |-> r] :
              m \in BOOLEAN, r \in serverRedirects \cup {<<>>}}
         \cup {[stage |-> "read", err |-> ErrReset, matched |-> FALSE, redirect |-> <<>>]}
         \cup {[stage |-> "do", err |-> x, matched |-> FALSE, redirect |-> <<>>] :
                  x \in {ErrRefused, ErrScheme}}

\* One iteration of the retry loop: client.Do(reqClone), the body read, and
\* the decision to return or to back off.
HDo(e) ==
    /\ hpc[e] = "do"
    /\ \E o \in Outcomes :
          /\ errLog' = [errLog EXCEPT ![e] = Append(@, [stage |-> o.stage, err |-> o.err])]
          /\ waits' = waits
          /\ IF ResponseEndsCall(o.stage)
             THEN /\ httpResult' = [httpResult EXCEPT ![e] =
                        [Error |-> o.err, matched |-> o.matched,
                         redirect |-> o.redirect, Retries |-> attempt[e]]]
                  /\ hpc' = [hpc EXCEPT ![e] = "ret"]
             ELSE IF ~isRetryableError(o.err) \/ LastAttempt(attempt[e])
             THEN /\ httpResult' = [httpResult EXCEPT ![e] =
                        [Error |-> o.err, matched |-> FALSE,
                         redirect |-> <<>>, Retries |-> advanced.Retries]]
                  /\ hpc' = [hpc EXCEPT ![e] = "ret"]
             ELSE /\ httpResult' = httpResult
                  /\ hpc' = [hpc EXCEPT ![e] = "backoff"]
    /\ UNCHANGED <<hostLimiters, evHost, reqPath, serverRedirects, pathIdx, currentURL,
                   visitedRedirects, redirectCount, attempt, hret, chain>>
    /\ UNCHANGED <<limitersMade, evLimiter, evAdvanced, httpClient>>
    /\ HTTPOthers

\* select { case <-ctx.Done(): return ; case <-time.After(waitTime): }: the
\* wait is over, or the context is done first.
HBackoff(e) ==
    /\ hpc[e] = "backoff"
    /\ \/ /\ ctxErr # "nil"
          /\ httpResult' = [httpResult EXCEPT ![e] =
                [Error |-> CtxError, matched |-> FALSE, redirect |-> <<>>,
                 Retries |-> attempt[e]]]
          /\ errLog' = [errLog EXCEPT ![e] = Append(@, [stage |-> "ctx", err |-> CtxError])]
          /\ waits' = waits
          /\ hpc' = [hpc EXCEPT ![e] = "ret"]
          /\ attempt' = attempt
       \/ /\ attempt' = [attempt EXCEPT ![e] = @ + 1]
          /\ hpc' = [hpc EXCEPT ![e] = "do"]
          /\ UNCHANGED <<httpResult, errLog>>
          /\ waits' = [waits EXCEPT ![e] = Append(@, waitTime(attempt[e]))]
    /\ UNCHANGED <<hostLimiters, evHost, reqPath, serverRedirects, pathIdx, currentURL,
                   visitedRedirects, redirectCount, hret, chain>>
    /\ UNCHANGED <<limitersMade, evLimiter, evAdvanced, httpClient>>
    /\ HTTPOthers

\* matchHTTPRequest after doRequest: an error gives the path up; a match
\* returns true; otherwise a top.location target becomes the next URL.  The
\* result and the retry loop's locals end with the iteration.
HResult(e) ==
    /\ hpc[e] = "ret"
    /\ IF httpResult[e].Error # NoError
       THEN StartPath(e, pathIdx[e] + 1)
       ELSE IF ReturnsOnMatch(httpResult[e].matched)
       THEN /\ hpc' = [hpc EXCEPT ![e] = "done"]
            /\ hret' = [hret EXCEPT ![e] = "true"]
            /\ UNCHANGED <<pathIdx, currentURL, visitedRedirects, redirectCount, chain>>
       ELSE IF parseJSRedirect(httpResult[e]) = <<>>
       THEN StartPath(e, pathIdx[e] + 1)
       ELSE /\ currentURL' = [currentURL EXCEPT ![e] =
                                 buildFullURL(evHost[e], parseJSRedirect(httpResult[e]))]
            /\ redirectCount' = [redirectCount EXCEPT ![e] = @ + 1]
            /\ hpc' = [hpc EXCEPT ![e] = "loop"]
            /\ UNCHANGED <<pathIdx, visitedRedirects, chain, hret>>
    /\ attempt' = [attempt EXCEPT ![e] = 0]
    /\ httpResult' = [httpResult EXCEPT ![e] = NoResult]
    /\ errLog' = [errLog EXCEPT ![e] = <<>>]
    /\ waits' = [waits EXCEPT ![e] = <<>>]
    /\ UNCHANGED <<hostLimiters, evHost, reqPath, serverRedirects>>
    /\ UNCHANGED <<limitersMade, evLimiter, evAdvanced, httpClient>>
    /\ HTTPOthers

\* RateLimiterFrequency milliseconds pass: the bucket gains a token, up to
\* its burst size.
LimiterRefill(h) ==
    /\ hostLimiters[h].made
    /\ hostLimiters[h].tokens < hostLimiters[h].burst
    /\ hostLimiters' = [hostLimiters EXCEPT ![h].tokens = @ + 1]
    /\ UNCHANGED <<evHost, reqPath, serverRedirects, hpc, pathIdx, currentURL, visitedRedirects,
                   redirectCount, attempt, httpResult, hret, chain, errLog, waits>>
    /\ UNCHANGED <<limitersMade, evLimiter, evAdvanced, httpClient>>
    /\ HTTPOthers

NextHTTP ==
    \/ \E e \in Evals :
          \/ HStart(e)
          \/ HLoop(e)
          \/ HWait(e)
          \/ HDo(e)
          \/ HBackoff(e)
          \/ HResult(e)
    \/ \E h \in Hosts : LimiterRefill(h)
    \/ CtxCancel

(***************************************************************************)
(* templates.MatchTemplate: the flow branch and the first-match loop       *)
(***************************************************************************)
MTOthers ==
    UNCHANGED <<advanced, hlVars, httpVars, vsVars, wmVars, swVars, fmVars, sbVars, ldVars, cmVars,
                dnsVars, ofVars, rdVars, bkVars, rtVars>>

\* req.Type of the requests a template declares ("network" is handled as
\* "dns" is, "ftp" stands for a type MatchTemplate does not know), with what
\* canOfflineMatchRequest(req) says.
RequestKinds ==
    [Type : {"http", "headless"}, offline : BOOLEAN]
        \cup [Type : {"dns", "ftp"}, offline : {FALSE}]

\* The parts of a flow: fn(arg); a part that is not http(...) is skipped.
FlowParts ==
    [fn : {"http"}, arg : {"0", "1", "2", "3", "x"}] \cup [fn : {"dns"}, arg : {"1"}]

\* strconv.Atoi on the index strings of the model
Atoi(str) ==
    CASE str = "0" -> [err |-> FALSE, val |-> 0]
      [] str = "1" -> [err |-> FALSE, val |-> 1]
      [] str = "2" -> [err |-> FALSE, val |-> 2]
      [] str = "3" -> [err |-> FALSE, val |-> 3]
      [] OTHER -> [err |-> TRUE, val |-> 0]

\* err != nil || idx < 1 || idx > len(tmpl.Requests), negated
ValidIndex(a) == ~a.err /\ a.val >= 1 /\ a.val <= Len(tmplRequests)

\* Mutant: a flow goes on after a step that did not match.
FlowStops_Never(matched) == FALSE

\* if !matched { return false, nil }
FlowStops(matched) == ~matched

\* Mutant: a flow whose steps all matched is a non-match.
AllStepsDone_False == [matched |-> FALSE, err |-> "nil"]

\* return true, nil after the last part of the flow
AllStepsDone == [matched |-> TRUE, err |-> "nil"]

\* Mutant: the loop goes on to the next request after a match.
FirstMatchWins_Never(matched) == FALSE

\* if matched { return true, nil }
FirstMatchWins(matched) == matched

\* What matchOfflineHTML can say: nothing matches an empty page.
OfflineResults == IF htmlContent = "" THEN {FALSE} ELSE BOOLEAN

\* What matchDNSRequest, matchNetworkRequest and matchHeadlessRequest can
\* return: (true, nil), (false, nil), (false, err).
LiveResults == {"match", "nomatch", "err"}

\* What matchHTTPRequest returns to MatchTemplate: its one error return is
\* for a base URL that url.Parse rejects (part_009:521-524), and MatchTemplate
\* has returned on such a URL before it runs any request.
HTTPResults == {"match", "nomatch"}

VarKeys == {"BaseURL", "token"}

\* substituteVariables: every {{key}} whose key is in the map is replaced
\* by its value, the rest of the string is kept.
substituteVariables(str, m) ==
    [i \in DOMAIN str |->
        IF str[i].kind = "var" /\ str[i].text \in VarKeys /\ m[str[i].text] # "absent"
        THEN [kind |-> "lit", text |-> m[str[i].text]]
        ELSE str[i]]

\* The path of every http request of the template, "{{token}}", and the
\* value the extractor named token finds in a response that matched.
TokenPath == <<[kind |-> "var", text |-> "token"]>>
ExtractedValue == "v1"

\* The path a request is sent with: matchHTTPRequest copies tmpl.Variables,
\* adds BaseURL and substitutes.
SentPath ==
    substituteVariables(TokenPath, [mtVariables EXCEPT !["BaseURL"] = "http://a"])

\* matchHTTPRequest on a match: return true, nil.  The call of
\* processExtractors before it is a comment, so tmpl.Variables is what it
\* was before the request.
VariablesAfterMatch(variables) == variables

\* What a step adds to the histories and leaves in tmpl.Variables.
StepRecords(idx, net, res) ==
    /\ stepLog' = Append(stepLog, [req |-> idx, net |-> net, res |-> res])
    /\ sentPaths' = Append(sentPaths,
                          IF net /\ tmplRequests[idx].Type = "http" THEN SentPath ELSE <<>>)
    /\ mtVariables' = IF net /\ tmplRequests[idx].Type = "http" /\ res = "match"
                      THEN VariablesAfterMatch(mtVariables)
                      ELSE mtVariables

NoStep == UNCHANGED <<stepLog, sentPaths, mtVariables>>

InitMTState ==
    /\ mpos = 0
    /\ mret = [matched |-> FALSE, err |-> "none"]
    /\ stepLog = <<>>
    /\ mtVariables = [k \in VarKeys |-> "absent"]
    /\ sentPaths = <<>>

MTReturn(matched, err) ==
    /\ mpc' = "done"
    /\ mret' = [matched |-> matched, err |-> err]
    /\ mpos' = mpos

\* MatchTemplate up to the choice between the flow and the loop.
MTStart ==
    /\ mpc = "idle"
    /\ IF Len(tmplRequests) = 0
       THEN MTReturn(FALSE, "no requests")
       ELSE /\ mpc' = IF tmplFlow # <<>> THEN "flow" ELSE "loop"
            /\ mpos' = 1
            /\ mret' = mret
    /\ UNCHANGED <<tmplRequests, tmplFlow, htmlContent, stepLog, mtVariables, sentPaths,
                   ctxErr>>
    /\ MTOthers

\* After a part of the flow: the next part, or return true after the last.
FlowAdvance ==
    IF mpos + 1 > Len(tmplFlow)
    THEN /\ mpc' = "done"
         /\ mret' = AllStepsDone
         /\ mpos' = mpos
    ELSE /\ mpos' = mpos + 1
         /\ UNCHANGED <<mpc, mret>>

\* results[idx] = matched and what follows, for a step that evaluated
\* request idx (net: matchHTTPRequest was called).
FlowAfterStep(idx, net, res) ==
    /\ StepRecords(idx, net, res)
    /\ IF res = "err"
       THEN MTReturn(FALSE, "request failed")
       ELSE IF FlowStops(res = "match")
       THEN MTReturn(FALSE, "nil")
       ELSE FlowAdvance

\* One part of the flow.
FlowStep ==
    /\ mpc = "flow"
    /\ LET part == tmplFlow[mpos]
           a == Atoi(part.arg)
       IN  IF part.fn # "http"
           THEN FlowAdvance /\ NoStep
           ELSE IF ~ValidIndex(a)
           THEN MTReturn(FALSE, "invalid flow request index") /\ NoStep
           ELSE IF tmplRequests[a.val].Type = "http"
           THEN \/ /\ tmplRequests[a.val].offline
                   /\ TRUE \in OfflineResults
                   /\ FlowAfterStep(a.val, FALSE, "match")
                \/ \E r \in HTTPResults : FlowAfterStep(a.val, TRUE, r)
           ELSE FlowAfterStep(a.val, FALSE, "nomatch")
    /\ UNCHANGED <<tmplRequests, tmplFlow, htmlContent, ctxErr>>
    /\ MTOthers

\* After a request of the loop: the next request, or return false.
LoopAdvance ==
    IF mpos + 1 > Len(tmplRequests)
    THEN MTReturn(FALSE, "nil")
    ELSE /\ mpos' = mpos + 1
         /\ UNCHANGED <<mpc, mret>>

\* What the loop does with the result of the request at mpos; errReturns:
\* the case returns the error instead of going on to the next request.
LoopAfter(net, res, errReturns) ==
    /\ StepRecords(mpos, net, res)
    /\ IF res = "err"
       THEN IF errReturns THEN MTReturn(FALSE, "request failed") ELSE LoopAdvance
       ELSE IF FirstMatchWins(res = "match")
       THEN MTReturn(TRUE, "nil")
       ELSE LoopAdvance

\* One iteration of for _, req := range tmpl.Requests.
LoopStep ==
    /\ mpc = "loop"
    /\ IF ctxErr # "nil"
       THEN MTReturn(FALSE, ctxErr) /\ NoStep
       ELSE LET req == tmplRequests[mpos] IN
            CASE req.Type = "http" ->
                    \/ /\ req.offline
                       /\ TRUE \in OfflineResults
                       /\ LoopAfter(FALSE, "match", TRUE)
                    \/ \E r \in HTTPResults : LoopAfter(TRUE, r, TRUE)
              [] req.Type = "dns" ->
                    \E r \in LiveResults : LoopAfter(TRUE, r, FALSE)
              [] req.Type = "headless" ->
                    IF req.offline
                    THEN \E m \in OfflineResults :
                            LoopAfter(FALSE, IF m THEN "match" ELSE "nomatch", TRUE)
                    ELSE \E r \in LiveResults : LoopAfter(TRUE, r, TRUE)
              [] OTHER -> LoopAdvance /\ NoStep
    /\ UNCHANGED <<tmplRequests, tmplFlow, htmlContent, ctxErr>>
    /\ MTOthers

NextMT ==
    \/ MTStart
    \/ FlowStep
    \/ LoopStep
    \/ CtxCancel

(***************************************************************************)
(* tmpl.Variables under workers that evaluate one template concurrently    *)
(***************************************************************************)
VSOthers ==
    UNCHANGED <<advanced, ctxErr, hlVars, httpVars, mtVars, wmVars, swVars, fmVars, sbVars, ldVars, cmVars,
                dnsVars, ofVars, rdVars, bkVars, rtVars>>

Workers == 1..NumWorkers
Targets == {"http://a", "http://b"}

\* tmpl.Variables as LoadTemplate left it: the template declares token and
\* does not declare BaseURL.
LoadedVariables == [k \in VarKeys |-> IF k = "token" THEN "t0" ELSE "absent"]

\* A path of the template, "{{BaseURL}}/x": placeholders and literal text.
RequestPath == <<[kind |-> "var", text |-> "BaseURL"], [kind |-> "lit", text |-> "/x"]>>

\* fmt.Sprintf("%s://%s", parsedBaseURL.Scheme, parsedBaseURL.Host) of a
\* target given as scheme://host
baseURLForVars(target) == target

InitVSState ==
    /\ tmplVariables = LoadedVariables
    /\ localVars = [w \in Workers |-> LoadedVariables]
    /\ requestedURL = [w \in Workers |-> <<>>]
    /\ fatal = FALSE

\* A map access of worker w overlaps a map write of another worker.
RacesWithWrite(w) == \E o \in Workers \ {w} : vpc[o] = "write"

\* templates.go:113, the assignment tmpl.Variables["BaseURL"] = ... begins
LegacyWriteBegin(w) ==
    /\ variant = "legacy"
    /\ ~fatal
    /\ vpc[w] = "idle"
    /\ vpc' = [vpc EXCEPT ![w] = "write"]
    /\ UNCHANGED <<variant, tmplVariables, vTarget, localVars, requestedURL, fatal>>
    /\ VSOthers

\* ... and ends: the value is in the shared map, unless the runtime saw the
\* overlapping write of another worker and stopped the process.
LegacyWriteEnd(w) ==
    /\ ~fatal
    /\ vpc[w] = "write"
    /\ \/ /\ tmplVariables' = [tmplVariables EXCEPT !["BaseURL"] = baseURLForVars(vTarget[w])]
          /\ vpc' = [vpc EXCEPT ![w] = "read"]
          /\ fatal' = fatal
       \/ /\ RacesWithWrite(w)
          /\ fatal' = TRUE
          /\ UNCHANGED <<tmplVariables, vpc>>
    /\ UNCHANGED <<variant, vTarget, localVars, requestedURL>>
    /\ VSOthers

\* templates.go:122, substituteVariables(p, tmpl.Variables) reads the shared
\* map and the request goes to the URL it gives.
LegacySubst(w) ==
    /\ ~fatal
    /\ vpc[w] = "read"
    /\ variant = "legacy"
    /\ \/ /\ requestedURL' = [requestedURL EXCEPT ![w] =
                                 substituteVariables(RequestPath, tmplVariables)]
          /\ vpc' = [vpc EXCEPT ![w] = "done"]
          /\ fatal' = fatal
       \/ /\ RacesWithWrite(w)
          /\ fatal' = TRUE
          /\ UNCHANGED <<requestedURL, vpc>>
    /\ UNCHANGED <<variant, tmplVariables, vTarget, localVars>>
    /\ VSOthers

\* part_009:527-533, matchHTTPRequest copies tmpl.Variables into its own
\* map and sets BaseURL there.
CurrentCopy(w) ==
    /\ variant = "current"
    /\ vpc[w] = "idle"
    /\ localVars' = [localVars EXCEPT ![w] =
                        [tmplVariables EXCEPT !["BaseURL"] = baseURLForVars(vTarget[w])]]
    /\ vpc' = [vpc EXCEPT ![w] = "read"]
    /\ UNCHANGED <<variant, tmplVariables, vTarget, requestedURL, fatal>>
    /\ VSOthers

\* substituteVariables(p, vars) with the local map
CurrentSubst(w) ==
    /\ variant = "current"
    /\ vpc[w] = "read"
    /\ requestedURL' = [requestedURL EXCEPT ![w] =
                           substituteVariables(RequestPath, localVars[w])]
    /\ vpc' = [vpc EXCEPT ![w] = "done"]
    /\ UNCHANGED <<variant, tmplVariables, vTarget, localVars, fatal>>
    /\ VSOthers

\* A worker takes the next target from the channel.
NextTarget(w) ==
    /\ ~fatal
    /\ vpc[w] = "done"
    /\ \E t \in Targets : vTarget' = [vTarget EXCEPT ![w] = t]
    /\ vpc' = [vpc EXCEPT ![w] = "idle"]
    /\ UNCHANGED <<variant, tmplVariables, localVars, requestedURL, fatal>>
    /\ VSOthers

NextVS ==
    \E w \in Workers :
        \/ LegacyWriteBegin(w)
        \/ LegacyWriteEnd(w)
        \/ LegacySubst(w)
        \/ CurrentCopy(w)
        \/ CurrentSubst(w)
        \/ NextTarget(w)

(***************************************************************************)
(* checkSingleMatcher on a word matcher: matchWordsByPart                   *)
(***************************************************************************)
WMOthers ==
    UNCHANGED <<advanced, ctxErr, hlVars, httpVars, mtVars, vsVars, swVars, fmVars, sbVars, ldVars, cmVars,
                dnsVars, ofVars, rdVars, bkVars, rtVars>>

\* Strings are sequences of these characters; none of them is a quote or
\* white space, which is all flexibleContains rewrites before it compares.
WordSet == {<<"A">>, <<"a", "b">>, <<"A", "b">>}
Bodies == {<<>>, <<"a", "b">>, <<"A", "b">>, <<"b", "A">>}

\* strings.ToLower
ToLower(str) == [i \in DOMAIN str |-> IF str[i] = "A" THEN "a" ELSE str[i]]

\* strings.Contains
Contains(text, w) ==
    \E i \in 0..(Len(text) - Len(w)) : SubSeq(text, i + 1, i + Len(w)) = w

flexibleContains(text, pattern) == Contains(text, pattern)

\* matchWordsByPart for part "body": with noCase the text is lowered and
\* every element of words is overwritten with its lower-case form; words is
\* the slice of the template's Matcher, so the second field of the result is
\* what the template holds afterwards.
\* Mutant: no condition asks for every word.
AllWordsRequired_Never(condition) == FALSE
\* if condition == "and"
AllWordsRequired(condition) == condition = "and"

matchWordsByPart(body, words, condition, noCase) ==
    LET text == IF noCase THEN ToLower(body) ELSE body
        ws == IF noCase THEN [i \in DOMAIN words |-> ToLower(words[i])] ELSE words
    IN  [ok |-> IF AllWordsRequired(condition)
                THEN \A i \in DOMAIN ws : flexibleContains(text, ws[i])
                ELSE \E i \in DOMAIN ws : flexibleContains(text, ws[i]),
         words |-> ws]

\* checkSingleMatcher(m, ctx, logger) for m.Type "word" and a response with
\* some body.
CheckSingleMatcher ==
    \E body \in Bodies :
        LET r == matchWordsByPart(body, tmplMatcher.Words, tmplMatcher.Condition,
                                  tmplMatcher.NoCase)
        IN  /\ tmplMatcher' = [tmplMatcher EXCEPT !.Words = r.words]
            /\ wmResult' = (IF r.ok THEN "true" ELSE "false")
            /\ respBody' = body
            /\ UNCHANGED loadedMatcher
            /\ WMOthers

NextWM == CheckSingleMatcher

\* No matcher is being evaluated.
ParkWM ==
    /\ tmplMatcher = [Words |-> <<>>, Condition |-> "", NoCase |-> FALSE]
    /\ loadedMatcher = tmplMatcher
    /\ respBody = <<>>
    /\ wmResult = "none"

(***************************************************************************)
(* scanner.StartWorkers, fed by feedTargets                                *)
(***************************************************************************)
SWOthers ==
    UNCHANGED <<advanced, ctxErr, hlVars, httpVars, mtVars, vsVars, wmVars, fmVars, sbVars, ldVars, cmVars,
                dnsVars, ofVars, rdVars, bkVars, rtVars>>

ScanTemplates == 1..MaxTemplates

InitSWState ==
    /\ targetsCh = <<>>
    /\ chClosed = FALSE
    /\ fed = 0
    /\ wkTarget = [w \in Workers |-> 0]
    /\ lateStart = {}
    /\ doneCh = FALSE
    /\ feedpc = "scan"
    /\ calls = [tpl \in ScanTemplates |-> [t \in 1..MaxTargets |-> 0]]
    /\ scanTpl = 1

\* feedTargets, for scanner.Scan() { select { case <-ctx.Done(): return;
\* default: ... } }: with a further line read, the feeder returns when the
\* context is done, and its deferred close(targetsChan) runs; otherwise it
\* goes on to send the line.  Lines are taken to be non-empty.
FeedScan ==
    /\ feedpc = "scan"
    /\ IF ctxErr # "nil"
       THEN /\ chClosed' = TRUE
            /\ feedpc' = "done"
       ELSE /\ fed < MaxTargets
            /\ feedpc' = "send"
            /\ chClosed' = chClosed
    /\ UNCHANGED <<targetsCh, fed, wkpc, wkTarget, lateStart, doneCh, calls, scanTpl, scanpc>>
    /\ SWOthers

\* feedTargets, targetsChan <- target: a plain send, which waits for room
\* in the buffer and for nothing else.
FeedSend ==
    /\ feedpc = "send"
    /\ Len(targetsCh) < ChanCap
    /\ targetsCh' = Append(targetsCh, fed + 1)
    /\ fed' = fed + 1
    /\ feedpc' = "scan"
    /\ UNCHANGED <<chClosed, wkpc, wkTarget, lateStart, doneCh, calls, scanTpl, scanpc>>
    /\ SWOthers

\* feedTargets: the file has no more lines; deferred close(targetsChan).
FeedClose ==
    /\ feedpc = "scan"
    /\ chClosed' = TRUE
    /\ feedpc' = "done"
    /\ UNCHANGED <<targetsCh, fed, wkpc, wkTarget, lateStart, doneCh, calls, scanTpl, scanpc>>
    /\ SWOthers

\* select, case <-ctx.Done(): the worker returns.
WSelectDone(w) ==
    /\ wkpc[w] = "select"
    /\ ctxErr # "nil"
    /\ wkpc' = [wkpc EXCEPT ![w] = "exit"]
    /\ UNCHANGED <<targetsCh, chClosed, fed, wkTarget, lateStart, doneCh, feedpc, calls, scanTpl,
                   scanpc>>
    /\ SWOthers

\* select, case target, ok := <-targetsCh with a buffered target: when the
\* context is done as well, select takes either ready case; on this one
\* processFn(ctx, target) is called.
WSelectRecv(w) ==
    /\ wkpc[w] = "select"
    /\ targetsCh # <<>>
    /\ targetsCh' = Tail(targetsCh)
    /\ wkTarget' = [wkTarget EXCEPT ![w] = Head(targetsCh)]
    /\ lateStart' = IF ctxErr # "nil" THEN lateStart \cup {Head(targetsCh)} ELSE lateStart
    /\ calls' = [calls EXCEPT ![scanTpl][Head(targetsCh)] = @ + 1]
    /\ wkpc' = [wkpc EXCEPT ![w] = "process"]
    /\ UNCHANGED <<chClosed, fed, doneCh, feedpc, scanTpl, scanpc>>
    /\ SWOthers

\* Mutant: a closed channel reads as closed while targets are still buffered.
ClosedForReceive_Early(ch, closed) == closed
\* target, ok := <-targetsCh gives !ok on a channel that is closed and whose
\* buffer has been drained.
ClosedForReceive(ch, closed) == closed /\ ch = <<>>

\* select, case target, ok := <-targetsCh on the closed, drained channel:
\* !ok, the worker returns.
WSelectClosed(w) ==
    /\ wkpc[w] = "select"
    /\ ClosedForReceive(targetsCh, chClosed)
    /\ wkpc' = [wkpc EXCEPT ![w] = "exit"]
    /\ UNCHANGED <<targetsCh, chClosed, fed, wkTarget, lateStart, doneCh, feedpc, calls, scanTpl,
                   scanpc>>
    /\ SWOthers

\* processFn returns; its error is dropped and the worker selects again.
WProcess(w) ==
    /\ wkpc[w] = "process"
    /\ wkTarget' = [wkTarget EXCEPT ![w] = 0]
    /\ wkpc' = [wkpc EXCEPT ![w] = "select"]
    /\ UNCHANGED <<targetsCh, chClosed, fed, lateStart, doneCh, feedpc, calls, scanTpl, scanpc>>
    /\ SWOthers

\* Mutant: the wait is over as soon as one worker has returned.
WaitGroupDone_Any(pc) == \E w \in Workers : pc[w] = "exit"
\* wg.Add(workers) and one deferred wg.Done() per worker: wg.Wait() returns
\* once every worker has.
WaitGroupDone(pc) == \A w \in Workers : pc[w] = "exit"

\* go func() { wg.Wait(); close(doneCh) }().
WaitDone ==
    /\ ~doneCh
    /\ WaitGroupDone(wkpc)
    /\ doneCh' = TRUE
    /\ UNCHANGED <<targetsCh, chClosed, fed, wkpc, wkTarget, lateStart, feedpc, calls, scanTpl,
                   scanpc>>
    /\ SWOthers

NextSW ==
    \/ FeedScan
    \/ FeedSend
    \/ FeedClose
    \/ \E w \in Workers :
          \/ WSelectDone(w)
          \/ WSelectRecv(w)
          \/ WSelectClosed(w)
          \/ WProcess(w)
    \/ WaitDone
    \/ CtxCancel

\* runScan, select, case <-resultsDone: the workers of the template at hand
\* have all returned.  The loop goes on to the next template and calls
\* StartWorkers for it on the same targetsChan; after the last template
\* "Scan finished." is sent.
RunResultsDone ==
    /\ scanpc = "wait"
    /\ doneCh
    /\ IF scanTpl < MaxTemplates
       THEN /\ scanTpl' = scanTpl + 1
            /\ wkpc' = [w \in Workers |-> "select"]
            /\ doneCh' = FALSE
            /\ scanpc' = scanpc
       ELSE /\ scanpc' = "finished"
            /\ UNCHANGED <<scanTpl, wkpc, doneCh>>
    /\ UNCHANGED <<targetsCh, chClosed, fed, wkTarget, lateStart, feedpc, calls>>
    /\ SWOthers

\* runScan, select, case <-ctx.Done(): return.
RunCtxDone ==
    /\ scanpc = "wait"
    /\ ctxErr # "nil"
    /\ scanpc' = "returned"
    /\ UNCHANGED <<targetsCh, chClosed, fed, wkpc, wkTarget, lateStart, doneCh, feedpc, calls,
                   scanTpl>>
    /\ SWOthers

NextScan ==
    \/ NextSW
    \/ RunResultsDone
    \/ RunCtxDone

\* No scan is running.
ParkSW ==
    /\ wkpc = [w \in Workers |-> "off"]
    /\ scanpc = "off"
    /\ InitSWState

(***************************************************************************)
(* templates.FindMatchingTemplates                                         *)
(***************************************************************************)
FMOthers ==
    UNCHANGED <<advanced, ctxErr, hlVars, httpVars, mtVars, vsVars, wmVars, swVars, sbVars,
                ldVars, cmVars, dnsVars, ofVars, rdVars, bkVars, rtVars>>

Templates == 1..MaxTemplates

InitFMState ==
    /\ fidx = 0
    /\ fsem = 0
    /\ gpc = [t \in Templates |-> "none"]
    /\ counter = 0
    /\ gcur = [t \in Templates |-> 0]
    /\ progressLog = <<>>
    /\ matchedTemplates = <<>>
    /\ fret = [err |-> "none", matched |-> <<>>]
    /\ fetchOut = "none"
    /\ interrupted = FALSE

FMReturn(err) ==
    /\ fpc' = "returned"
    /\ fret' = [err |-> err, matched |-> matchedTemplates]

\* What MatchTemplate can return to the goroutine: (true, nil), (false, nil),
\* (false, err); with the context done the error is ctx.Err().
EvalResults ==
    IF ctxErr = "nil" THEN {"match", "nomatch", "err"} ELSE {"match", "nomatch", "ctx"}

\* htmlContent, err := headless.DoHeadlessRequest(ctx, targetURL,
\* advanced.HeadlessTabs, advanced.Timeout): the browser fails to start
\* ("init"), the navigation fails ("nav") or the page comes back; past the
\* start of the browser the call first sends on its channel of capacity
\* HeadlessTabs, which it cannot do when that is 0.  Any error is returned.
FFetch ==
    /\ fpc = "fetch"
    /\ \E out \in {"html", "nav", "init"} :
          /\ out # "init" => advanced.HeadlessTabs > 0
          /\ fetchOut' = out
          /\ IF out = "html"
             THEN /\ fpc' = "loop"
                  /\ fidx' = 1
                  /\ fret' = fret
             ELSE /\ FMReturn("fetch")
                  /\ fidx' = fidx
    /\ UNCHANGED <<fTotal, hostOk, fsem, gpc, counter, gcur, progressLog,
                   matchedTemplates, interrupted>>
    /\ FMOthers

\* One iteration of for _, tmpl := range templates up to sem <- struct{}{}:
\* the context check, then the host filter with its own progress report.
FLoop ==
    /\ fpc = "loop"
    /\ IF fidx > fTotal
       THEN /\ fpc' = "wait"
            /\ UNCHANGED <<fidx, fret, counter, progressLog>>
       ELSE IF ctxErr # "nil"
       THEN /\ FMReturn(ctxErr)
            /\ UNCHANGED <<fidx, counter, progressLog>>
       ELSE IF ~hostOk[fidx]
       THEN /\ counter' = counter + 1
            /\ progressLog' = Append(progressLog, counter + 1)
            /\ fidx' = fidx + 1
            /\ UNCHANGED <<fpc, fret>>
       ELSE /\ fpc' = "send"
            /\ UNCHANGED <<fidx, fret, counter, progressLog>>
    /\ UNCHANGED <<fTotal, hostOk, fsem, gpc, gcur, matchedTemplates, fetchOut, interrupted>>
    /\ FMOthers

\* Mutant: the send on sem never blocks.
SemHasRoom_Always == TRUE
\* sem := make(chan struct{}, advanced.Workers): a send goes through while
\* the channel holds fewer than advanced.Workers tokens.
SemHasRoom == fsem < advanced.Workers

\* sem <- struct{}{} blocks while sem holds advanced.Workers tokens; then
\* wg.Add(1) and go func(t *Template).
FSend ==
    /\ fpc = "send"
    /\ SemHasRoom
    /\ fsem' = fsem + 1
    /\ gpc' = [gpc EXCEPT ![fidx] = "spawned"]
    /\ fidx' = fidx + 1
    /\ fpc' = "loop"
    /\ UNCHANGED <<fTotal, hostOk, counter, gcur, progressLog, matchedTemplates, fret,
                   fetchOut, interrupted>>
    /\ FMOthers

\* The goroutine's select on ctx.Done(): done, it returns (deferred <-sem
\* and wg.Done()) without evaluating or reporting progress.
GCheck(t) ==
    /\ gpc[t] = "spawned"
    /\ IF ctxErr # "nil"
       THEN /\ gpc' = [gpc EXCEPT ![t] = "finished"]
            /\ fsem' = fsem - 1
            /\ interrupted' = TRUE
       ELSE /\ gpc' = [gpc EXCEPT ![t] = "eval"]
            /\ UNCHANGED <<fsem, interrupted>>
    /\ UNCHANGED <<fTotal, hostOk, fpc, fidx, counter, gcur, progressLog, matchedTemplates,
                   fret, fetchOut>>
    /\ FMOthers

\* MatchTemplate returns; on (true, nil) the template is appended under mu.
GEval(t) ==
    /\ gpc[t] = "eval"
    /\ \E r \in EvalResults :
          /\ matchedTemplates' = IF r = "match" THEN Append(matchedTemplates, t)
                                 ELSE matchedTemplates
          /\ interrupted' = (interrupted \/ r = "ctx")
    /\ gpc' = [gpc EXCEPT ![t] = "evaluated"]
    /\ UNCHANGED <<fTotal, hostOk, fpc, fidx, fsem, counter, gcur, progressLog, fret, fetchOut>>
    /\ FMOthers

\* current := int(counter.Add(1))
GCount(t) ==
    /\ gpc[t] = "evaluated"
    /\ counter' = counter + 1
    /\ gcur' = [gcur EXCEPT ![t] = counter + 1]
    /\ gpc' = [gpc EXCEPT ![t] = "counted"]
    /\ UNCHANGED <<fTotal, hostOk, fpc, fidx, fsem, progressLog, matchedTemplates, fret,
                   fetchOut, interrupted>>
    /\ FMOthers

\* progressCallback(current, total), then the deferred <-sem and wg.Done().
GCallback(t) ==
    /\ gpc[t] = "counted"
    /\ progressLog' = Append(progressLog, gcur[t])
    /\ fsem' = fsem - 1
    /\ gpc' = [gpc EXCEPT ![t] = "finished"]
    /\ UNCHANGED <<fTotal, hostOk, fpc, fidx, counter, gcur, matchedTemplates, fret,
                   fetchOut, interrupted>>
    /\ FMOthers

\* wg.Wait() returns once every goroutine has; return matchedTemplates, nil.
FWait ==
    /\ fpc = "wait"
    /\ \A t \in Templates : gpc[t] \in {"none", "finished"}
    /\ FMReturn("nil")
    /\ UNCHANGED <<fTotal, hostOk, fidx, fsem, gpc, counter, gcur, progressLog,
                   matchedTemplates, fetchOut, interrupted>>
    /\ FMOthers

\* The steps of the check itself.
FMProgram ==
    \/ FFetch
    \/ FLoop
    \/ FSend
    \/ \E t \in Templates :
          \/ GCheck(t)
          \/ GEval(t)
          \/ GCount(t)
          \/ GCallback(t)
    \/ FWait

NextFM ==
    \/ FFetch
    \/ FLoop
    \/ FSend
    \/ \E t \in Templates :
          \/ GCheck(t)
          \/ GEval(t)
          \/ GCount(t)
          \/ GCallback(t)
    \/ FWait
    \/ CtxCancel

\* No check is running.
ParkFM ==
    /\ fTotal = 0
    /\ hostOk = [t \in Templates |-> TRUE]
    /\ fpc = "off"
    /\ InitFMState

(***************************************************************************)
(* substituteVariables                                                     *)
(***************************************************************************)
SBOthers ==
    UNCHANGED <<advanced, ctxErr, hlVars, httpVars, mtVars, vsVars, wmVars, swVars, fmVars,
                ldVars, cmVars, dnsVars, ofVars, rdVars, bkVars, rtVars>>

\* The keys of the variable map; {{c}} is a placeholder of no variable.
SubstKeys == {"a", "b"}

\* fmt.Sprintf("{{%s}}", k)
Placeholder(k) == IF k = "a" THEN "{{a}}" ELSE IF k = "b" THEN "{{b}}" ELSE "{{c}}"

\* A string is a sequence of tokens: a character or a whole placeholder.
Tokens == {"x", "{{a}}", "{{b}}", "{{c}}"}
Strings == UNION {[1..n -> Tokens] : n \in 0..MaxStr}

\* The orders in which range vars may visit the keys.
IterationOrders == {<<"a", "b">>, <<"b", "a">>}

\* strings.ReplaceAll(s, placeholder, val)
RECURSIVE ReplaceAll(_, _, _)
ReplaceAll(str, placeholder, val) ==
    IF str = <<>> THEN <<>>
    ELSE (IF Head(str) = placeholder THEN val ELSE <<Head(str)>>)
             \o ReplaceAll(Tail(str), placeholder, val)

\* substituteVariables with the keys visited in the given order: one
\* ReplaceAll per key, each on the result of the one before.
RECURSIVE substituteInOrder(_, _, _)
substituteInOrder(str, m, order) ==
    IF order = <<>> THEN str
    ELSE substituteInOrder(ReplaceAll(str, Placeholder(Head(order)), m[Head(order)]),
                           m, Tail(order))

\* s = substituteVariables(s, vars)
SubstCall ==
    /\ spc = "new"
    /\ \E o \in IterationOrders : sOut' = substituteInOrder(sIn, sMap, o)
    /\ spc' = "once"
    /\ UNCHANGED <<sIn, sMap, sAgain, sTwice>>
    /\ SBOthers

\* The same call once more.
SubstRepeat ==
    /\ spc = "once"
    /\ \E o \in IterationOrders : sAgain' = substituteInOrder(sIn, sMap, o)
    /\ spc' = "repeated"
    /\ UNCHANGED <<sIn, sMap, sOut, sTwice>>
    /\ SBOthers

\* substituteVariables on the string the first call returned.
SubstReapply ==
    /\ spc = "once"
    /\ \E o \in IterationOrders : sTwice' = substituteInOrder(sOut, sMap, o)
    /\ spc' = "reapplied"
    /\ UNCHANGED <<sIn, sMap, sOut, sAgain>>
    /\ SBOthers

NextSB ==
    \/ SubstCall
    \/ SubstRepeat
    \/ SubstReapply

ParkSB ==
    /\ sIn = <<>>
    /\ sMap = [k \in SubstKeys |-> <<>>]
    /\ spc = "off"
    /\ sOut = <<>>
    /\ sAgain = <<>>
    /\ sTwice = <<>>

(***************************************************************************)
(* LoadTemplate and Template.NormalizeRequests                             *)
(***************************************************************************)
LDOthers ==
    UNCHANGED <<advanced, ctxErr, hlVars, httpVars, mtVars, vsVars, wmVars, swVars, fmVars,
                sbVars, cmVars, dnsVars, ofVars, rdVars, bkVars, rtVars>>

\* The lists of request blocks a template file can hold, by YAML key, and
\* the values a block's own type field can have ("" when it has none).
RawLists == {"requests", "http", "dns", "network", "headless"}
DeclaredTypes == {"", "dns"}

\* The blocks of one list as *Request values: which block of the file each
\* is, and its Type after the list was given the default ty.
Tagged(list, ty) ==
    [i \in 1..Len(rawBlocks[list]) |->
        [list |-> list, n |-> i,
         Type |-> IF rawBlocks[list][i] = "" THEN ty ELSE rawBlocks[list][i]]]

\* NormalizeRequests: t.Requests is HTTPRaw, DNSRaw, NetworkRaw and
\* HeadlessRaw in this order, an empty Type set to the list's protocol.
NormalizeRequests ==
    Tagged("http", "http") \o Tagged("dns", "dns") \o Tagged("network", "network")
        \o Tagged("headless", "headless")

\* LoadTemplate after yaml.Unmarshal: NormalizeRequests, then RequestsRaw
\* and HTTPRaw are appended to tmpl.Requests.
LoadTemplate ==
    /\ ldpc = "file"
    /\ ldRequests' = NormalizeRequests \o Tagged("requests", "") \o Tagged("http", "http")
    /\ ldpc' = "loaded"
    /\ UNCHANGED rawBlocks
    /\ LDOthers

NextLD == LoadTemplate

ParkLD ==
    /\ rawBlocks = [l \in RawLists |-> <<>>]
    /\ ldpc = "off"
    /\ ldRequests = <<>>

(***************************************************************************)
(* checkMatchers                                                           *)
(***************************************************************************)
CMOthers ==
    UNCHANGED <<advanced, ctxErr, hlVars, httpVars, mtVars, vsVars, wmVars, swVars, fmVars,
                sbVars, ldVars, dnsVars, ofVars, rdVars, bkVars, rtVars>>

\* The condition strings a template can hold.
ConditionStrings == {"", "and", "or", "AND", "And", "OR", "Or", "xor"}

\* strings.ToLower on a condition string
ToLowerCondition(c) ==
    IF c \in {"AND", "And"} THEN "and" ELSE IF c \in {"OR", "Or"} THEN "or" ELSE c

\* Mutant: the or branch is never taken.
AnyMatcherSuffices_Never(condition) == FALSE
\* if condition == "or"
AnyMatcherSuffices(condition) == condition = "or"

\* checkMatchers on the results checkSingleMatcher gives for the matchers of
\* the list, in order.
checkMatchers(results, condition) ==
    IF Len(results) = 0 THEN TRUE
    ELSE LET lowered == ToLowerCondition(condition)
             cond == IF lowered = "" THEN "and" ELSE lowered
         IN  IF AnyMatcherSuffices(cond)
             THEN \E i \in DOMAIN results : results[i]
             ELSE \A i \in DOMAIN results : results[i]

\* matched := checkMatchers(req.Matchers, req.MatchersCondition, matchCtx, logger)
CheckMatchers ==
    /\ cmOut = "none"
    /\ cmOut' = (IF checkMatchers(cmResults, cmCondition) THEN "true" ELSE "false")
    /\ UNCHANGED <<cmResults, cmCondition>>
    /\ CMOthers

NextCM == CheckMatchers

ParkCM ==
    /\ cmResults = <<>>
    /\ cmCondition = ""
    /\ cmOut = "off"

(***************************************************************************)
(* matchDNSRequest                                                         *)
(***************************************************************************)
DNSOthers ==
    UNCHANGED <<advanced, ctxErr, hlVars, httpVars, mtVars, vsVars, wmVars, swVars, fmVars,
                sbVars, ldVars, cmVars, ofVars, rdVars, bkVars, rtVars>>

\* req.Path[0] of a dns request, "none" for an empty Path.
QueryTypes ==
    {"none", "A", "a", "AAAA", "aaaa", "TXT", "txt", "CNAME", "cname", "NS", "ns", "MX", "mx",
     "PTR", "ptr", "SOA", ""}

\* strings.ToUpper on a query type
ToUpperType(q) ==
    CASE q = "a" -> "A" [] q = "aaaa" -> "AAAA" [] q = "txt" -> "TXT" [] q = "cname" -> "CNAME"
      [] q = "ns" -> "NS" [] q = "mx" -> "MX" [] q = "ptr" -> "PTR" [] OTHER -> q

\* Mutant: every query type reaches a lookup.
HasLookup_Every(queryType) == TRUE
\* The cases of switch queryType other than default.
HasLookup(queryType) == queryType \in {"A", "AAAA", "TXT", "CNAME", "NS", "MX"}

\* matchDNSRequest, given whether the lookup fails and what checkMatchers
\* gives on the records.
matchDNSRequest(path, lookupFails, matchersPass) ==
    LET queryType == IF path = "none" THEN "A" ELSE ToUpperType(path)
    IN  IF ~HasLookup(queryType) THEN [matched |-> FALSE, err |-> "nil"]
        ELSE IF lookupFails THEN [matched |-> FALSE, err |-> "lookup"]
        ELSE [matched |-> matchersPass, err |-> "nil"]

\* matched, err = matchDNSRequest(parsedBaseURL.Hostname(), req, tmpl, logger)
DNSCall ==
    /\ dnsRet = [matched |-> FALSE, err |-> "none"]
    /\ dnsRet' = matchDNSRequest(dnsPath, dnsLookupFails, dnsMatchersPass)
    /\ UNCHANGED <<dnsPath, dnsLookupFails, dnsMatchersPass>>
    /\ DNSOthers

NextDNS == DNSCall

ParkDNS ==
    /\ dnsPath = "none"
    /\ dnsLookupFails = FALSE
    /\ dnsMatchersPass = FALSE
    /\ dnsRet = [matched |-> FALSE, err |-> "off"]

(***************************************************************************)
(* matchOfflineHTML against checkMatchers, word matchers                   *)
(***************************************************************************)
OFOthers ==
    UNCHANGED <<advanced, ctxErr, hlVars, httpVars, mtVars, vsVars, wmVars, swVars, fmVars,
                sbVars, ldVars, cmVars, dnsVars, rdVars, bkVars, rtVars>>

\* The word matchers a request can hold.
WordMatchers ==
    [Words : UNION {[1..n -> WordSet] : n \in 1..MaxWords},
     Condition : {"and", "or", ""},
     NoCase : BOOLEAN]

\* matchOfflineHTML for matchers of type word: true at the first word of
\* any matcher that strings.Contains finds in the page.
matchOfflineHTML(html, matchers) ==
    \E i \in DOMAIN matchers :
        \E j \in DOMAIN matchers[i].Words : Contains(html, matchers[i].Words[j])

\* checkMatchers(req.Matchers, req.MatchersCondition, ...) on a response
\* whose body is the page: checkSingleMatcher on each word matcher, then
\* the combination.
checkMatchersOnBody(html, matchers, condition) ==
    checkMatchers([i \in DOMAIN matchers |->
                      matchWordsByPart(html, matchers[i].Words, matchers[i].Condition,
                                       matchers[i].NoCase).ok],
                  condition)

\* MatchTemplate on an http request with a pre-fetched page: the offline
\* result, and beside it what checkMatchers gives on the same page.
OfflineMatch ==
    /\ offOut = "none"
    /\ offOut' = (IF matchOfflineHTML(offHtml, offMatchers) THEN "true" ELSE "false")
    /\ onlineOut' = (IF checkMatchersOnBody(offHtml, offMatchers, offCondition)
                     THEN "true" ELSE "false")
    /\ UNCHANGED <<offHtml, offMatchers, offCondition>>
    /\ OFOthers

NextOF == OfflineMatch

ParkOF ==
    /\ offHtml = <<>>
    /\ offMatchers = <<>>
    /\ offCondition = ""
    /\ offOut = "off"
    /\ onlineOut = "off"

(***************************************************************************)
(* matchHTTPRequest: the redirect loop of one path on a site with many     *)
(* pages                                                                   *)
(***************************************************************************)
RDOthers ==
    UNCHANGED <<advanced, ctxErr, hlVars, httpVars, mtVars, vsVars, wmVars, swVars, fmVars,
                sbVars, ldVars, cmVars, dnsVars, ofVars, bkVars, rtVars>>

\* The path of the request and the top.location targets the site's pages
\* can hold: more pages than the loop follows, one of them also written with
\* a trailing slash and one without the leading slash.
PageNames == {"a", "b", "c", "d", "e", "f", "g", "h"}
RedirectPaths == {<<"/", c>> : c \in PageNames} \cup {<<"/", "a", "/">>, <<"b">>}

\* for _, p := range req.Path: the loop's locals for this path.
RdStart ==
    /\ rdpc = "idle"
    /\ \E p \in RedirectPaths : rdURL' = buildFullURL("h1", p)
    /\ rdVisited' = {}
    /\ rdCount' = 0
    /\ rdRequests' = 0
    /\ rdpc' = "loop"
    /\ RDOthers

\* Head of the redirect loop: the redirect bound, then the visited set.
RdLoop ==
    /\ rdpc = "loop"
    /\ IF RedirectBoundReached(rdCount) \/ AlreadyVisited(rdVisited, rdURL)
       THEN /\ rdpc' = "done"
            /\ UNCHANGED rdVisited
       ELSE /\ rdVisited' = rdVisited \cup {normalizeURL(rdURL)}
            /\ rdpc' = "request"
    /\ UNCHANGED <<rdURL, rdCount, rdRequests>>
    /\ RDOthers

\* result, err := doRequest(currentURL) and what follows it: an error or a
\* page without top.location ends the path, a match returns, and otherwise
\* the target becomes the next URL and redirectCount grows.
RdRequest ==
    /\ rdpc = "request"
    /\ rdRequests' = rdRequests + 1
    /\ \/ /\ rdpc' = "done"
          /\ UNCHANGED <<rdURL, rdCount>>
       \/ \E target \in RedirectPaths :
             /\ rdURL' = buildFullURL("h1", target)
             /\ rdCount' = rdCount + 1
             /\ rdpc' = "loop"
    /\ UNCHANGED rdVisited
    /\ RDOthers

NextRD ==
    \/ RdStart
    \/ RdLoop
    \/ RdRequest

ParkRD ==
    /\ rdpc = "off"
    /\ rdURL = [host |-> "h1", path |-> <<>>]
    /\ rdVisited = {}
    /\ rdCount = 0
    /\ rdRequests = 0

\* RetryDelay of the settings in force, in seconds: 1 * time.Second unless
\* the settings page changed it.
DefaultRetryDelay == 1

ParkBK == retryDelay = DefaultRetryDelay

(***************************************************************************)
(* scanner.ReadTargets and the consumer of its channels                    *)
(***************************************************************************)
RTOthers ==
    UNCHANGED <<advanced, ctxErr, hlVars, httpVars, mtVars, vsVars, wmVars, swVars, fmVars,
                sbVars, ldVars, cmVars, dnsVars, ofVars, rdVars, bkVars>>

\* Mutant: the cancellation case of the select is never ready.
CtxDoneReady_Never == FALSE
\* case <-ctx.Done()
CtxDoneReady == ctxErr # "nil"

\* The goroutine returns: errc <- err when there is an error (errc has room
\* for one), close(errc), and the deferred close(out).
RtReturn(withErr) ==
    /\ withErr => Len(rtErrc) < 1
    /\ rtErrc' = IF withErr THEN Append(rtErrc, "err") ELSE rtErrc
    /\ rtErrCloses' = rtErrCloses + 1
    /\ rtOutCloses' = rtOutCloses + 1
    /\ rtpc' = "done"

\* file, err := os.Open(filepath)
RtOpen ==
    /\ rtpc = "open"
    /\ IF rtFile.opens
       THEN /\ rtpc' = "scan"
            /\ UNCHANGED <<rtErrc, rtErrCloses, rtOutCloses>>
       ELSE RtReturn(TRUE)
    /\ UNCHANGED <<rtFile, rtNext, rtDelivered, rtConsumer>>
    /\ RTOthers

\* for scanner.Scan(): the next line, or the end of the loop with
\* scanner.Err() sent if there is one.
RtScan ==
    /\ rtpc = "scan"
    /\ IF rtNext < rtFile.lines
       THEN /\ rtNext' = rtNext + 1
            /\ rtpc' = "select"
            /\ UNCHANGED <<rtErrc, rtErrCloses, rtOutCloses>>
       ELSE /\ RtReturn(rtFile.scanErr)
            /\ UNCHANGED rtNext
    /\ UNCHANGED <<rtFile, rtDelivered, rtConsumer>>
    /\ RTOthers

\* select, case <-ctx.Done(): errc <- ctx.Err(); close(errc); return.
RtSelectDone ==
    /\ rtpc = "select"
    /\ CtxDoneReady
    /\ RtReturn(TRUE)
    /\ UNCHANGED <<rtFile, rtNext, rtDelivered, rtConsumer>>
    /\ RTOthers

\* select, case out <- scanner.Text(): out has no buffer, so the send takes
\* place when the consumer receives.
RtSend ==
    /\ rtpc = "select"
    /\ rtConsumer = "recv"
    /\ rtDelivered' = Append(rtDelivered, rtNext)
    /\ rtpc' = "scan"
    /\ UNCHANGED <<rtFile, rtNext, rtErrc, rtErrCloses, rtOutCloses, rtConsumer>>
    /\ RTOthers

\* The consumer stops receiving from out.
ConsumerLeaves ==
    /\ rtConsumer = "recv"
    /\ rtConsumer' = "gone"
    /\ UNCHANGED <<rtFile, rtpc, rtNext, rtDelivered, rtErrc, rtErrCloses, rtOutCloses>>
    /\ RTOthers

ProducerStep ==
    \/ RtOpen
    \/ RtScan
    \/ RtSelectDone
    \/ RtSend

NextRT ==
    \/ ProducerStep
    \/ ConsumerLeaves
    \/ CtxCancel

ParkRT ==
    /\ rtFile = [opens |-> FALSE, lines |-> 0, scanErr |-> FALSE]
    /\ rtpc = "off"
    /\ rtNext = 0
    /\ rtDelivered = <<>>
    /\ rtErrc = <<>>
    /\ rtErrCloses = 0
    /\ rtOutCloses = 0
    /\ rtConsumer = "gone"

vars == <<advanced, ctxErr, hlVars, httpVars, mtVars, vsVars, wmVars, swVars, fmVars, sbVars, ldVars, cmVars,
                dnsVars, ofVars, rdVars, bkVars, rtVars>>

\* The HTTP executor at rest, for the specifications that do not run it.
ParkHTTP ==
    /\ evHost = [e \in Evals |-> "h1"]
    /\ reqPath = [e \in Evals |-> <<>>]
    /\ serverRedirects = {}
    /\ hpc = [e \in Evals |-> "off"]
    /\ evAdvanced = OneSetting
    /\ InitHTTPState

\* No worker evaluates the template.
ParkVS ==
    /\ variant = "current"
    /\ vTarget = [w \in Workers |-> "http://a"]
    /\ vpc = [w \in Workers |-> "off"]
    /\ InitVSState

\* MatchTemplate at rest.
ParkMT ==
    /\ tmplRequests = <<>>
    /\ tmplFlow = <<>>
    /\ htmlContent = ""
    /\ mpc = "off"
    /\ InitMTState

InitHeadlessSpec ==
    /\ advanced \in [Workers : {1}, Retries : {1}, HeadlessTabs : 0..MaxTabs,
                     RateLimiterBurstSize : {1}]
    /\ ctxErr = "nil"
    /\ InitHLState
    /\ ParkHTTP
    /\ ParkMT
    /\ ParkVS
    /\ ParkWM
    /\ ParkSW
    /\ ParkFM
    /\ ParkSB
    /\ ParkLD
    /\ ParkCM
    /\ ParkDNS
    /\ ParkOF
    /\ ParkRD
    /\ ParkBK
    /\ ParkRT

\* One matchHTTPRequest call, every request shape and retry count.
InitHTTPSpec ==
    /\ advanced \in [Workers : {1}, Retries : 0..MaxRetries, HeadlessTabs : {1},
                     RateLimiterBurstSize : {1}]
    /\ ctxErr = "nil"
    /\ InitHLState
    /\ evHost = [e \in Evals |-> "h1"]
    /\ \E ps \in UNION {[1..n -> Paths] : n \in 0..MaxPaths} :
          reqPath = [e \in Evals |-> ps]
    /\ serverRedirects = Paths
    /\ hpc = [e \in Evals |-> IF e = 1 THEN "idle" ELSE "off"]
    /\ evAdvanced = OneSetting
    /\ InitHTTPState
    /\ ParkMT
    /\ ParkVS
    /\ ParkWM
    /\ ParkSW
    /\ ParkFM
    /\ ParkSB
    /\ ParkLD
    /\ ParkCM
    /\ ParkDNS
    /\ ParkOF
    /\ ParkRD
    /\ ParkBK
    /\ ParkRT

SpecHTTP == InitHTTPSpec /\ [][NextHTTP]_vars

\* Concurrent matchHTTPRequest calls against one or two hosts, each for a
\* request with one path.
InitRateSpec ==
    /\ advanced \in [Workers : {1}, Retries : {0, 1}, HeadlessTabs : {1},
                     RateLimiterBurstSize : 1..MaxBurst]
    /\ ctxErr = "nil"
    /\ InitHLState
    /\ evHost \in [Evals -> Hosts]
    /\ reqPath = [e \in Evals |-> << <<"/", "x">> >>]
    /\ serverRedirects = {}
    /\ hpc = [e \in Evals |-> "idle"]
    /\ evAdvanced = OneSetting
    /\ InitHTTPState
    /\ ParkMT
    /\ ParkVS
    /\ ParkWM
    /\ ParkSW
    /\ ParkFM
    /\ ParkSB
    /\ ParkLD
    /\ ParkCM
    /\ ParkDNS
    /\ ParkOF
    /\ ParkRD
    /\ ParkBK
    /\ ParkRT

SpecRate == InitRateSpec /\ [][NextHTTP]_vars

\* Concurrent matchHTTPRequest calls that each make one request without
\* retries, under a context that stays live: every call goes through
\* getHostLimiter once.
InitLimiterSpec ==
    /\ advanced \in [Workers : {1}, Retries : {0}, HeadlessTabs : {1},
                     RateLimiterBurstSize : {1}]
    /\ ctxErr = "nil"
    /\ InitHLState
    /\ evHost \in [Evals -> Hosts]
    /\ reqPath = [e \in Evals |-> << <<"/", "x">> >>]
    /\ serverRedirects = {}
    /\ hpc = [e \in Evals |-> "idle"]
    /\ evAdvanced = OneSetting
    /\ InitHTTPState
    /\ ParkMT
    /\ ParkVS
    /\ ParkWM
    /\ ParkSW
    /\ ParkFM
    /\ ParkSB
    /\ ParkLD
    /\ ParkCM
    /\ ParkDNS
    /\ ParkOF
    /\ ParkRD
    /\ ParkBK
    /\ ParkRT

NextLimiter ==
    \/ \E e \in Evals :
          \/ HStart(e)
          \/ HLoop(e)
          \/ HWait(e)
          \/ HDo(e)
          \/ HResult(e)
    \/ \E h \in Hosts : LimiterRefill(h)

SpecLimiter == InitLimiterSpec /\ [][NextLimiter]_vars

\* matchHTTPRequest calls of scans that were started with settings of their
\* own.
InitSettingsSpec ==
    /\ advanced \in [Workers : {1}, Retries : {0}, HeadlessTabs : {1},
                     RateLimiterBurstSize : {1}]
    /\ ctxErr = "nil"
    /\ InitHLState
    /\ evHost \in [Evals -> Hosts]
    /\ reqPath = [e \in Evals |-> << <<"/", "x">> >>]
    /\ serverRedirects = {}
    /\ hpc = [e \in Evals |-> "idle"]
    /\ evAdvanced \in [Evals -> [RateLimiterBurstSize : 1..MaxBurst, Timeout : 1..MaxTimeout]]
    /\ InitHTTPState
    /\ ParkMT
    /\ ParkVS
    /\ ParkWM
    /\ ParkSW
    /\ ParkFM
    /\ ParkSB
    /\ ParkLD
    /\ ParkCM
    /\ ParkDNS
    /\ ParkOF
    /\ ParkRD
    /\ ParkBK
    /\ ParkRT

SpecSettings == InitSettingsSpec /\ [][NextLimiter]_vars

SpecHeadless ==
    InitHeadlessSpec /\ [][NextHL]_vars

SpecBrowser == InitHeadlessSpec /\ [][NextBrowser]_vars

\* One MatchTemplate call, every template shape within the bounds.
InitMatchSpec ==
    /\ advanced = DefaultAdvanced
    /\ ctxErr = "nil"
    /\ InitHLState
    /\ ParkHTTP
    /\ tmplRequests \in UNION {[1..n -> RequestKinds] : n \in 0..MaxReq}
    /\ tmplFlow \in UNION {[1..n -> FlowParts] : n \in 0..MaxFlow}
    /\ htmlContent \in {"", "html"}
    /\ mpc = "idle"
    /\ InitMTState
    /\ ParkVS
    /\ ParkWM
    /\ ParkSW
    /\ ParkFM
    /\ ParkSB
    /\ ParkLD
    /\ ParkCM
    /\ ParkDNS
    /\ ParkOF
    /\ ParkRD
    /\ ParkBK
    /\ ParkRT

SpecMatch == InitMatchSpec /\ [][NextMT]_vars

\* Workers of one scan evaluate the same template, each against its target.
InitVarsSpec ==
    /\ advanced = DefaultAdvanced
    /\ ctxErr = "nil"
    /\ InitHLState
    /\ ParkHTTP
    /\ ParkMT
    /\ variant \in {"legacy", "current"}
    /\ vTarget \in [Workers -> Targets]
    /\ vpc = [w \in Workers |-> "idle"]
    /\ InitVSState
    /\ ParkWM
    /\ ParkSW
    /\ ParkFM
    /\ ParkSB
    /\ ParkLD
    /\ ParkCM
    /\ ParkDNS
    /\ ParkOF
    /\ ParkRD
    /\ ParkBK
    /\ ParkRT

SpecVars == InitVarsSpec /\ [][NextVS]_vars

\* A word matcher of a loaded template, checked against response after
\* response.
InitMatcherSpec ==
    /\ advanced = DefaultAdvanced
    /\ ctxErr = "nil"
    /\ InitHLState
    /\ ParkHTTP
    /\ ParkMT
    /\ ParkVS
    /\ tmplMatcher \in [Words : UNION {[1..n -> WordSet] : n \in 0..MaxWords},
                        Condition : {"and", "or", ""},
                        NoCase : BOOLEAN]
    /\ loadedMatcher = tmplMatcher
    /\ respBody = <<>>
    /\ wmResult = "none"
    /\ ParkSW
    /\ ParkFM
    /\ ParkSB
    /\ ParkLD
    /\ ParkCM
    /\ ParkDNS
    /\ ParkOF
    /\ ParkRD
    /\ ParkBK
    /\ ParkRT

SpecMatcher == InitMatcherSpec /\ [][NextWM]_vars

\* The scan's workers, however many targets the file holds.
InitWorkersSpec ==
    /\ advanced = DefaultAdvanced
    /\ ctxErr = "nil"
    /\ InitHLState
    /\ ParkHTTP
    /\ ParkMT
    /\ ParkVS
    /\ ParkWM
    /\ wkpc = [w \in Workers |-> "select"]
    /\ scanpc = "off"
    /\ InitSWState
    /\ ParkFM
    /\ ParkSB
    /\ ParkLD
    /\ ParkCM
    /\ ParkDNS
    /\ ParkOF
    /\ ParkRD
    /\ ParkBK
    /\ ParkRT

SpecWorkers == InitWorkersSpec /\ [][NextSW]_vars

\* The same workers with every goroutine scheduled again and again: the
\* feeder, each worker (every processFn call returns) and the goroutine
\* that waits for them.  Nothing makes the context be cancelled.
FairWorkers ==
    /\ WF_vars(FeedScan \/ FeedSend \/ FeedClose)
    /\ \A w \in Workers :
          WF_vars(WSelectDone(w) \/ WSelectRecv(w) \/ WSelectClosed(w) \/ WProcess(w))
    /\ WF_vars(WaitDone)

SpecWorkersFair == InitWorkersSpec /\ [][NextSW]_vars /\ FairWorkers

\* runScan over allTemplates: the feeder, and StartWorkers called for one
\* template after the other on the one targetsChan.
InitScanSpec ==
    /\ advanced = DefaultAdvanced
    /\ ctxErr = "nil"
    /\ InitHLState
    /\ ParkHTTP
    /\ ParkMT
    /\ ParkVS
    /\ ParkWM
    /\ wkpc = [w \in Workers |-> "select"]
    /\ scanpc = "wait"
    /\ InitSWState
    /\ ParkFM
    /\ ParkSB
    /\ ParkLD
    /\ ParkCM
    /\ ParkDNS
    /\ ParkOF
    /\ ParkRD
    /\ ParkBK
    /\ ParkRT

SpecScan == InitScanSpec /\ [][NextScan]_vars

\* One check of one target: every template set and every Workers and
\* HeadlessTabs setting within the bounds.
InitCheckSpec ==
    /\ advanced \in [Workers : 0..MaxWorkers, Retries : {1}, HeadlessTabs : {0, 1},
                     RateLimiterBurstSize : {1}]
    /\ ctxErr = "nil"
    /\ InitHLState
    /\ ParkHTTP
    /\ ParkMT
    /\ ParkVS
    /\ ParkWM
    /\ ParkSW
    /\ fTotal \in 0..MaxTemplates
    /\ hostOk \in [Templates -> BOOLEAN]
    /\ fpc = "fetch"
    /\ InitFMState
    /\ ParkSB
    /\ ParkLD
    /\ ParkCM
    /\ ParkDNS
    /\ ParkOF
    /\ ParkRD
    /\ ParkBK
    /\ ParkRT

SpecCheck == InitCheckSpec /\ [][NextFM]_vars

\* substituteVariables on every string and every variable map of string
\* values within the bounds.
InitSubstSpec ==
    /\ advanced = DefaultAdvanced
    /\ ctxErr = "nil"
    /\ InitHLState
    /\ ParkHTTP
    /\ ParkMT
    /\ ParkVS
    /\ ParkWM
    /\ ParkSW
    /\ ParkFM
    /\ sIn \in Strings
    /\ sMap \in [SubstKeys -> Strings]
    /\ spc = "new"
    /\ sOut = <<>>
    /\ sAgain = <<>>
    /\ sTwice = <<>>
    /\ ParkLD
    /\ ParkCM
    /\ ParkDNS
    /\ ParkOF
    /\ ParkRD
    /\ ParkBK
    /\ ParkRT

SpecSubst == InitSubstSpec /\ [][NextSB]_vars

\* LoadTemplate on every template file within the bounds.
InitLoadSpec ==
    /\ advanced = DefaultAdvanced
    /\ ctxErr = "nil"
    /\ InitHLState
    /\ ParkHTTP
    /\ ParkMT
    /\ ParkVS
    /\ ParkWM
    /\ ParkSW
    /\ ParkFM
    /\ ParkSB
    /\ rawBlocks \in [RawLists -> UNION {[1..n -> DeclaredTypes] : n \in 0..MaxRaw}]
    /\ ldpc = "file"
    /\ ldRequests = <<>>
    /\ ParkCM
    /\ ParkDNS
    /\ ParkOF
    /\ ParkRD
    /\ ParkBK
    /\ ParkRT

SpecLoad == InitLoadSpec /\ [][NextLD]_vars

\* checkMatchers on every list of matcher results and every condition
\* string within the bounds.
InitMatchersSpec ==
    /\ advanced = DefaultAdvanced
    /\ ctxErr = "nil"
    /\ InitHLState
    /\ ParkHTTP
    /\ ParkMT
    /\ ParkVS
    /\ ParkWM
    /\ ParkSW
    /\ ParkFM
    /\ ParkSB
    /\ ParkLD
    /\ cmResults \in UNION {[1..n -> BOOLEAN] : n \in 0..MaxMatchers}
    /\ cmCondition \in ConditionStrings
    /\ cmOut = "none"
    /\ ParkDNS
    /\ ParkOF
    /\ ParkRD
    /\ ParkBK
    /\ ParkRT

SpecMatchers == InitMatchersSpec /\ [][NextCM]_vars

\* matchDNSRequest on every query type, resolver outcome and matcher result.
InitDNSSpec ==
    /\ advanced = DefaultAdvanced
    /\ ctxErr = "nil"
    /\ InitHLState
    /\ ParkHTTP
    /\ ParkMT
    /\ ParkVS
    /\ ParkWM
    /\ ParkSW
    /\ ParkFM
    /\ ParkSB
    /\ ParkLD
    /\ ParkCM
    /\ dnsPath \in QueryTypes
    /\ dnsLookupFails \in BOOLEAN
    /\ dnsMatchersPass \in BOOLEAN
    /\ dnsRet = [matched |-> FALSE, err |-> "none"]
    /\ ParkOF
    /\ ParkRD
    /\ ParkBK
    /\ ParkRT

SpecDNS == InitDNSSpec /\ [][NextDNS]_vars

\* matchOfflineHTML on every page and every one or two word matchers.
InitOfflineSpec ==
    /\ advanced = DefaultAdvanced
    /\ ctxErr = "nil"
    /\ InitHLState
    /\ ParkHTTP
    /\ ParkMT
    /\ ParkVS
    /\ ParkWM
    /\ ParkSW
    /\ ParkFM
    /\ ParkSB
    /\ ParkLD
    /\ ParkCM
    /\ ParkDNS
    /\ offHtml \in Bodies
    /\ offMatchers \in [{1} -> WordMatchers] \cup [{1, 2} -> WordMatchers]
    /\ offCondition \in {"", "and", "or"}
    /\ offOut = "none"
    /\ onlineOut = "none"
    /\ ParkRD
    /\ ParkBK
    /\ ParkRT

SpecOffline == InitOfflineSpec /\ [][NextOF]_vars

\* The redirect loop of one path, whatever the pages point to.
InitRedirectSpec ==
    /\ advanced = DefaultAdvanced
    /\ ctxErr = "nil"
    /\ InitHLState
    /\ ParkHTTP
    /\ ParkMT
    /\ ParkVS
    /\ ParkWM
    /\ ParkSW
    /\ ParkFM
    /\ ParkSB
    /\ ParkLD
    /\ ParkCM
    /\ ParkDNS
    /\ ParkOF
    /\ rdpc = "idle"
    /\ rdURL = [host |-> "h1", path |-> <<>>]
    /\ rdVisited = {}
    /\ rdCount = 0
    /\ rdRequests = 0
    /\ ParkBK
    /\ ParkRT

SpecRedirect == InitRedirectSpec /\ [][NextRD]_vars

\* One matchHTTPRequest call for one path that fails again and again, under
\* every RetryDelay the settings page accepts from 0 up.
InitBackoffSpec ==
    /\ advanced \in [Workers : {1}, Retries : 0..MaxRetries, HeadlessTabs : {1},
                     RateLimiterBurstSize : {1}]
    /\ ctxErr = "nil"
    /\ InitHLState
    /\ evHost = [e \in Evals |-> "h1"]
    /\ reqPath = [e \in Evals |-> << <<"/", "x">> >>]
    /\ serverRedirects = {}
    /\ hpc = [e \in Evals |-> IF e = 1 THEN "idle" ELSE "off"]
    /\ evAdvanced = OneSetting
    /\ InitHTTPState
    /\ ParkMT
    /\ ParkVS
    /\ ParkWM
    /\ ParkSW
    /\ ParkFM
    /\ ParkSB
    /\ ParkLD
    /\ ParkCM
    /\ ParkDNS
    /\ ParkOF
    /\ ParkRD
    /\ retryDelay \in 0..MaxDelay
    /\ ParkRT

SpecBackoff == InitBackoffSpec /\ [][NextHTTP]_vars

\* ReadTargets on every file up to MaxTargets lines, with a consumer that
\* may stop receiving and a context that may be cancelled at any time.
InitTargetsSpec ==
    /\ advanced = DefaultAdvanced
    /\ ctxErr = "nil"
    /\ InitHLState
    /\ ParkHTTP
    /\ ParkMT
    /\ ParkVS
    /\ ParkWM
    /\ ParkSW
    /\ ParkFM
    /\ ParkSB
    /\ ParkLD
    /\ ParkCM
    /\ ParkDNS
    /\ ParkOF
    /\ ParkRD
    /\ ParkBK
    /\ rtFile \in [opens : BOOLEAN, lines : 0..MaxTargets, scanErr : BOOLEAN]
    /\ rtpc = "open"
    /\ rtNext = 0
    /\ rtDelivered = <<>>
    /\ rtErrc = <<>>
    /\ rtErrCloses = 0
    /\ rtOutCloses = 0
    /\ rtConsumer = "recv"

SpecTargets == InitTargetsSpec /\ [][NextRT]_vars

\* C1: at any time the number of open headless tabs (calls that hold a
\* semaphore token and have not torn their tab down) is at most the
\* configured tab limit HeadlessTabs.
C1_OpenTabsWithinLimit == Cardinality(OpenTabs) <= advanced.HeadlessTabs

\* C2: every request sent to a host (each path, each followed redirect and
\* each retry attempt) is preceded by the acquisition of one token of that
\* host's bucket: a call never sends a second request on the token it took
\* at its last limiter.Wait.
C2_EveryRequestTakesAToken ==
    \A e \in Evals : Len(SelectSeq(errLog[e], LAMBDA x : x.stage # "ctx")) <= 1

\* The client.Do calls of the doHTTPRequestWithRetry call that just returned.
Attempts(e) == SelectSeq(errLog[e], LAMBDA x : x.stage # "ctx")
FailedRetryable(x) == x.stage \in {"do", "read"} /\ isRetryableError(x.err)
FailedPermanent(x) == x.stage \in {"do", "read"} /\ ~isRetryableError(x.err)

\* C3 as stated: when doHTTPRequestWithRetry returns, at most Retries+1
\* attempts were made, a non-retryable failure was the last attempt, and if
\* every attempt failed with a retryable error exactly Retries+1 were made.
C3_RetryCountAsStated ==
    \A e \in Evals : hpc[e] = "ret" =>
        LET a == Attempts(e) IN
        /\ Len(a) <= advanced.Retries + 1
        /\ \A i \in 1..Len(a) : FailedPermanent(a[i]) => i = Len(a)
        /\ (\A i \in 1..Len(a) : FailedRetryable(a[i])) => Len(a) = advanced.Retries + 1

\* C3 amended: when doHTTPRequestWithRetry returns, at most Retries+1
\* attempts were made; a non-retryable failure, and any failure to read a
\* received body, was the last attempt; and if client.Do returned a
\* retryable error on every attempt and the call did not return on
\* ctx.Done() during a backoff wait, exactly Retries+1 attempts were made.
C3_RetryCount ==
    \A e \in Evals : hpc[e] = "ret" =>
        LET a == Attempts(e) IN
        /\ Len(a) <= advanced.Retries + 1
        /\ \A i \in 1..Len(a) :
              (FailedPermanent(a[i]) \/ a[i].stage = "read") => i = Len(a)
        /\ ( /\ \A i \in 1..Len(a) : a[i].stage = "do" /\ isRetryableError(a[i].err)
             /\ \A i \in 1..Len(errLog[e]) : errLog[e][i].stage # "ctx" )
           => Len(a) = advanced.Retries + 1

\* Retries = 2 and three attempts that all failed with a retryable error.
C3_Witness ==
    \E e \in Evals :
        /\ hpc[e] = "ret"
        /\ advanced.Retries = 2
        /\ Len(errLog[e]) = 3
        /\ \A i \in 1..3 : errLog[e][i].stage = "do" /\ isRetryableError(errLog[e][i].err)

\* C4: within the redirect chain of one path no normalized URL is requested
\* twice, every URL of the chain is on the base host, and the chain is never
\* longer than the first request plus maxRedirects redirects.
C4_NoURLTwice ==
    \A e \in Evals :
        /\ \A i, j \in 1..Len(chain[e]) :
              i < j => normalizeURL(chain[e][i]) # normalizeURL(chain[e][j])
        /\ \A i \in 1..Len(chain[e]) : chain[e][i].host = evHost[e]
        /\ Len(chain[e]) <= maxRedirects + 1

\* A page redirected to /x, /x was requested, and its page points back to
\* /x/ which differs from /x only by the trailing slash: the loop head finds
\* it visited.
C4_Witness ==
    \E e \in Evals :
        /\ hpc[e] = "loop"
        /\ Len(chain[e]) = 2
        /\ chain[e][2] = [host |-> evHost[e], path |-> <<"/", "x">>]
        /\ currentURL[e].path = <<"/", "x", "/">>
        /\ AlreadyVisited(visitedRedirects[e], currentURL[e])

\* The steps of a flow: its parts of the form http(i), in declared order.
FlowSteps == SelectSeq(tmplFlow, LAMBDA p : p.fn = "http")

\* C5: in a flow no step is evaluated after the first step that does not
\* match or fails, and MatchTemplate has then returned a non-match; so with
\* the flow http(1) && http(2) and request 1 not matching, request 2 is
\* never issued.
C5_FlowShortCircuit ==
    tmplFlow # <<>> =>
        \A i \in 1..Len(stepLog) :
            stepLog[i].res # "match" =>
                /\ i = Len(stepLog)
                /\ mpc = "done"
                /\ ~mret.matched

\* The flow http(1) && http(2) on two requests: request 1 was requested and
\* did not match, request 2 was never evaluated, the result is a non-match.
C5_Witness ==
    /\ mpc = "done"
    /\ tmplFlow = <<[fn |-> "http", arg |-> "1"], [fn |-> "http", arg |-> "2"]>>
    /\ Len(tmplRequests) = 2
    /\ stepLog = <<[req |-> 1, net |-> TRUE, res |-> "nomatch"]>>
    /\ mret = [matched |-> FALSE, err |-> "nil"]

C7_InvalidIndexIsError ==
    ( /\ mpc = "done"
      /\ \E i \in 1..Len(tmplFlow) :
            tmplFlow[i].fn = "http" /\ ~ValidIndex(Atoi(tmplFlow[i].arg)) )
    => mret.err # "nil"

\* C8: without a flow the requests are tried in declared order, a request
\* that matched is the last one tried and MatchTemplate returned true for it,
\* and true is returned only for a request that matched.
C8_FirstMatchWins ==
    tmplFlow = <<>> =>
        /\ \A i \in 1..Len(stepLog) :
              stepLog[i].res = "match" =>
                  /\ i = Len(stepLog)
                  /\ mpc = "done"
                  /\ mret = [matched |-> TRUE, err |-> "nil"]
        /\ \A i, j \in 1..Len(stepLog) : i < j => stepLog[i].req < stepLog[j].req
        /\ (mpc = "done" /\ mret.matched) =>
              /\ stepLog # <<>>
              /\ stepLog[Len(stepLog)].res = "match"

\* Two requests, no flow: request 1 matched and request 2 was never tried.
C8_Witness ==
    /\ mpc = "done"
    /\ tmplFlow = <<>>
    /\ Len(tmplRequests) = 2
    /\ Len(stepLog) = 1
    /\ stepLog[1].req = 1 /\ stepLog[1].res = "match"
    /\ mret.matched

\* C9: evaluations of one template never write into its shared Variables
\* map, and an evaluation against a target requests the URL built from its
\* own target, never from the target of a concurrent evaluation; no
\* evaluation brings the process down on a concurrent map access.
C9_VariableScopePerTarget ==
    /\ tmplVariables = LoadedVariables
    /\ \A w \in Workers :
          vpc[w] = "done" =>
              requestedURL[w] = <<[kind |-> "lit", text |-> baseURLForVars(vTarget[w])],
                                  [kind |-> "lit", text |-> "/x"]>>
    /\ ~fatal

\* C10: evaluating a matcher leaves the template's matcher, its word list
\* included, as LoadTemplate built it.
C10_MatcherUnchanged == tmplMatcher = loadedMatcher

\* C11: once the context is cancelled no worker of StartWorkers calls
\* processFn for a target it takes from the channel afterwards.
C11_NoStartAfterCancel == lateStart = {}

\* C12: when the context ended an evaluation of the check, or made a started
\* goroutine skip its evaluation, FindMatchingTemplates returns the
\* context's error, not a nil error.
C12_CancellationReported ==
    (fpc = "returned" /\ interrupted) => fret.err \in {"canceled", "deadline"}

\* C14: a check always completes: as long as FindMatchingTemplates has not
\* returned, the caller or one of its goroutines can take a step, whatever
\* the Workers and HeadlessTabs settings and the template set are.
C14_CheckCompletes ==
    fpc \in {"fetch", "loop", "send", "wait"} => ENABLED FMProgram

\* C15: FindMatchingTemplates returns the error of the initial page fetch
\* only when the browser failed to start; a failed navigation of a started
\* browser does not end the check.
C15_FetchFailureContained ==
    (fpc = "returned" /\ fret.err = "fetch") => fetchOut = "init"

\* C17: the counts given to progressCallback never decrease in the order in
\* which the callbacks run.
C17_ProgressMonotonic ==
    \A i, j \in 1..Len(progressLog) : i < j => progressLog[i] <= progressLog[j]

\* C18: FindMatchingTemplates never returns the result slice while a
\* goroutine that can still append to it is running, and no template is in
\* the slice twice.
C18_ResultSetGuarded ==
    /\ fpc = "returned" => \A t \in Templates : gpc[t] # "eval"
    /\ \A i, j \in 1..Len(matchedTemplates) :
          i < j => matchedTemplates[i] # matchedTemplates[j]

\* C16: without a flow, a request whose execution ends with an error counts
\* as no match and the evaluation goes on: MatchTemplate never returns the
\* error of a request.
C16_RequestErrorsContained ==
    tmplFlow = <<>> => mret.err # "request failed"

\* C13: DoHeadlessRequest observes the context passed to it: once that
\* context is cancelled, no call that was waiting for its tab token goes on
\* to open a tab and navigate.
C13_HeadlessObservesCancel ==
    [][ctxErr # "nil" => \A c \in Callers : ~(hlpc[c] = "sem" /\ hlpc'[c] = "tab")]_vars

\* C19: the allocator is created at most once between resets, and no call
\* opens a tab on a nil or torn-down browser context, also when
\* ForceReinitHeadless runs concurrently.
C19_BrowserInitSafe ==
    /\ allocs <= 1
    /\ \A c \in Callers : tabParent[c] \notin {"nil", "dead"}

\* C20: getHostLimiter creates at most one limiter per hostname; calls for
\* the same hostname return the same limiter and calls for different
\* hostnames return different limiters.
C20_OneLimiterPerHost ==
    /\ \A h \in Hosts : Cardinality({x \in limitersMade : x.host = h}) <= 1
    /\ \A e1, e2 \in Evals :
          (evLimiter[e1] # 0 /\ evLimiter[e2] # 0)
              => ((evHost[e1] = evHost[e2]) <=> (evLimiter[e1] = evLimiter[e2]))

\* Two evaluations against one hostname have both called getHostLimiter.
C20_Witness ==
    \E e1, e2 \in Evals :
        /\ e1 # e2
        /\ evHost[e1] = evHost[e2]
        /\ evLimiter[e1] # 0
        /\ evLimiter[e2] # 0

\* C21: the limiter burst applied to a request and the timeouts of the HTTP
\* client used for it are those of the settings passed to that request's
\* executor.
C21_SettingsOfTheCall ==
    \A e \in Evals :
        hpc[e] \in {"wait", "do", "ret"} =>
            /\ hostLimiters[evHost[e]].burst = evAdvanced[e].RateLimiterBurstSize
            /\ httpClient.Timeout = evAdvanced[e].Timeout

\* The MatchTemplate calls of the check that are running.
RunningEvaluations == {t \in Templates : gpc[t] = "eval"}

\* C22: during FindMatchingTemplates the number of MatchTemplate calls
\* running at the same time never exceeds advanced.Workers.
C22_EvaluationsWithinWorkers ==
    Cardinality(RunningEvaluations) <= advanced.Workers

\* Every worker slot is taken by a running evaluation while the dispatch
\* loop waits to start one more template.
C22_Witness ==
    /\ advanced.Workers >= 1
    /\ Cardinality(RunningEvaluations) = advanced.Workers
    /\ fpc = "send"

\* C23: substituteVariables returns the same string for the same string
\* and variable map, whatever order the variables are visited in.
C23_SubstOrderIndependent ==
    spc = "repeated" => sAgain = sOut

\* C24: substituteVariables applied to its own result returns that result,
\* and a string that holds no placeholder of a variable of the map is
\* returned as it is.
C24_SubstIdempotent ==
    /\ spc = "reapplied" => sTwice = sOut
    /\ (spc # "new" /\ \A i \in DOMAIN sIn : \A k \in SubstKeys : sIn[i] # Placeholder(k))
           => sOut = sIn

\* C25: once an http request of the evaluation has matched, its extractor's
\* value is in the evaluation's variables, and every later http request of
\* the same evaluation is sent with that value in place of {{token}}.
C25_ExtractedValueUsed ==
    \A i, j \in 1..Len(stepLog) :
        (/\ i < j
         /\ stepLog[i].net /\ tmplRequests[stepLog[i].req].Type = "http"
         /\ stepLog[i].res = "match"
         /\ stepLog[j].net /\ tmplRequests[stepLog[j].req].Type = "http")
            => sentPaths[j] = <<[kind |-> "lit", text |-> ExtractedValue]>>

\* The blocks the file declares under its protocol keys, in the order
\* http, dns, network, headless, each with its protocol as Type (a block
\* that has a type field of its own keeps it).
DeclaredBlocks ==
    LET Of(list) ==
            [i \in 1..Len(rawBlocks[list]) |->
                [list |-> list, n |-> i,
                 Type |-> IF rawBlocks[list][i] = "" THEN list ELSE rawBlocks[list][i]]]
    IN  Of("http") \o Of("dns") \o Of("network") \o Of("headless")

\* C26: after LoadTemplate, tmpl.Requests holds each declared request block
\* exactly once, in the order http, dns, network, headless, each tagged with
\* its protocol.
C26_RequestsBuiltOnce ==
    ldpc = "loaded" => ldRequests = DeclaredBlocks

\* C27: when the matchers pass on a response, the next step of
\* matchHTTPRequest is return true: no redirect of that response is
\* followed, no further path is started, and after the return the call
\* makes no request.
C27_ReturnsOnFirstMatch ==
    [][\A e \in Evals :
          /\ (hpc[e] = "ret" /\ httpResult[e].Error = NoError /\ httpResult[e].matched
                 /\ hpc'[e] # "ret")
                => /\ hpc'[e] = "done"
                   /\ hret'[e] = "true"
                   /\ chain'[e] = chain[e]
                   /\ currentURL'[e] = currentURL[e]
                   /\ pathIdx'[e] = pathIdx[e]
          /\ hret[e] = "true" => (hpc'[e] = "done" /\ chain'[e] = chain[e])]_vars

\* A call has returned true on a path that is not the last of its request.
C27_Witness ==
    \E e \in Evals :
        /\ hpc[e] = "done"
        /\ hret[e] = "true"
        /\ pathIdx[e] < Len(reqPath[e])

\* C28: checkMatchers returns true for every empty matcher list; for a
\* non-empty list it returns the AND of the single results when the
\* condition is "and" and their OR when it is "or".
C28_CheckMatchersCombines ==
    cmOut \in {"true", "false"} =>
        /\ Len(cmResults) = 0 => cmOut = "true"
        /\ (Len(cmResults) > 0 /\ cmCondition = "and")
              => (cmOut = "true" <=> \A i \in DOMAIN cmResults : cmResults[i])
        /\ (Len(cmResults) > 0 /\ cmCondition = "or")
              => (cmOut = "true" <=> \E i \in DOMAIN cmResults : cmResults[i])

\* Under "or" a list with a failing and a passing matcher has passed.
C28_Witness ==
    /\ cmCondition = "or"
    /\ cmResults = <<FALSE, TRUE>>
    /\ cmOut = "true"

\* The word is in the response body, compared without case when the
\* matcher says so.
WordPresent(w) ==
    IF loadedMatcher.NoCase THEN Contains(ToLower(respBody), ToLower(w))
    ELSE Contains(respBody, w)

C30_ConditionNormalized ==
    wmResult \in {"true", "false"} =>
        (wmResult = "true" <=>
            IF ToLowerCondition(loadedMatcher.Condition) = "or"
            THEN \E i \in DOMAIN loadedMatcher.Words : WordPresent(loadedMatcher.Words[i])
            ELSE \A i \in DOMAIN loadedMatcher.Words : WordPresent(loadedMatcher.Words[i]))

\* C31: for a dns request whose query type is none of A, AAAA, TXT, CNAME,
\* NS, MX, matchDNSRequest returns (false, nil).
C31_UnsupportedQueryType ==
    (/\ dnsRet.err \notin {"none", "off"}
     /\ dnsPath \notin {"none", "A", "a", "AAAA", "aaaa", "TXT", "txt", "CNAME", "cname",
                         "NS", "ns", "MX", "mx"})
        => dnsRet = [matched |-> FALSE, err |-> "nil"]

\* A PTR request for a host whose lookups fail has returned (false, nil).
C31_Witness ==
    /\ dnsPath = "PTR"
    /\ dnsLookupFails
    /\ dnsRet = [matched |-> FALSE, err |-> "nil"]

\* C32: an attempt of doHTTPRequestWithRetry that receives a response is
\* the last attempt of the call, whatever the response is and whether or not
\* the matchers pass on it: the call returns with the retries made before
\* it, zero when it was the first attempt.
C32_ResponseNeverRetried ==
    \A e \in Evals : \A i \in DOMAIN errLog[e] :
        errLog[e][i].stage \in {"ok", "read"} =>
            /\ i = Len(errLog[e])
            /\ hpc[e] = "ret"
            /\ httpResult[e].Retries = i - 1

\* With retries configured, a first attempt got a response on which the
\* matchers fail, and the call returned with zero retries.
C32_Witness ==
    \E e \in Evals :
        /\ advanced.Retries >= 1
        /\ hpc[e] = "ret"
        /\ Len(errLog[e]) = 1
        /\ errLog[e][1].stage = "ok"
        /\ ~httpResult[e].matched
        /\ httpResult[e].Retries = 0

\* C33: the channel StartWorkers returns is closed only when every worker
\* goroutine has returned, is closed once and stays closed, and with every
\* goroutine scheduled and every processFn call returning it is closed at
\* last whenever the targets channel is closed or the context is cancelled.
C33_DoneChClosedAfterWorkers ==
    /\ [](doneCh => \A w \in Workers : wkpc[w] = "exit")
    /\ [][doneCh => doneCh']_vars
    /\ ((chClosed \/ ctxErr # "nil") ~> doneCh)

\* Targets were processed, the feeder closed the channel without any
\* cancellation, and doneCh has been closed.
C33_Witness ==
    /\ doneCh
    /\ ctxErr = "nil"
    /\ chClosed
    /\ fed >= 2
    /\ \A t \in 1..fed : calls[1][t] >= 1

\* C34: for word matchers the offline evaluation of a page gives what
\* checkMatchers gives on a response with that page as body.
C34_OfflineAgreesWithCheckMatchers ==
    offOut \in {"true", "false"} => offOut = onlineOut

\* C35: for one path matchHTTPRequest issues at most maxRedirects + 1
\* requests, the first and one per top.location redirect followed, so it
\* follows at most 5 redirects whatever targets the pages hold.
C35_AtMostFiveRedirects ==
    /\ rdRequests <= maxRedirects + 1
    /\ rdRequests <= 6

\* Six requests were made, the sixth page points to a page not yet visited,
\* and the loop has ended on the redirect bound.
C35_Witness ==
    /\ rdpc = "done"
    /\ rdRequests = 6
    /\ rdCount = 6
    /\ ~AlreadyVisited(rdVisited, rdURL)

\* C36 as stated: the successive backoff waits of one request are strictly
\* increasing.
C36_BackoffStrictlyIncreasing ==
    \A e \in Evals : \A i, j \in DOMAIN waits[e] : i < j => waits[e][i] < waits[e][j]

\* C36, amended: the wait before retry number k is RetryDelay * k, there
\* are as many waits as retries made and never more than Retries, so none
\* after the last attempt; the waits are strictly increasing when RetryDelay
\* is positive.
C36_BackoffLinear ==
    \A e \in Evals :
        /\ \A k \in DOMAIN waits[e] : waits[e][k] = retryDelay * k
        /\ Len(waits[e]) <= advanced.Retries
        /\ hpc[e] \in {"do", "backoff", "ret"} => Len(waits[e]) = attempt[e]
        /\ retryDelay > 0 =>
              \A i, j \in DOMAIN waits[e] : i < j => waits[e][i] < waits[e][j]

\* Retries = 2, RetryDelay = 2: all three attempts failed with a retryable
\* error, after waits of 2 and 4 seconds and no third wait.
C36_Witness ==
    \E e \in Evals :
        /\ advanced.Retries = 2
        /\ retryDelay = 2
        /\ hpc[e] = "ret"
        /\ Len(errLog[e]) = 3
        /\ waits[e] = <<2, 4>>

\* C37: no target is handed to processFn twice, never more than `workers`
\* processFn calls run at a time, and when doneCh is closed under a context
\* that was never cancelled the feeder has closed the targets channel and
\* processFn has been called exactly once for each target sent.
C37_EachTargetOnce ==
    /\ \A t \in 1..MaxTargets : calls[1][t] <= 1
    /\ Cardinality({w \in Workers : wkpc[w] = "process"}) <= NumWorkers
    /\ (doneCh /\ ctxErr = "nil") =>
          /\ chClosed
          /\ \A t \in 1..fed : calls[1][t] = 1
          /\ \A w \in Workers : wkTarget[w] = 0

\* Three targets were sent through a buffer of two, each was processed once,
\* and doneCh is closed.
C37_Witness ==
    /\ doneCh
    /\ ctxErr = "nil"
    /\ fed = 3
    /\ \A t \in 1..3 : calls[1][t] = 1

\* C38: once the scan context is cancelled, the goroutine that feeds the
\* targets channel stops and closes the channel at last.
C38_FeederStopsAfterCancel == (ctxErr # "nil") ~> chClosed

\* C39: under every interleaving of producer, consumer and cancellation,
\* out and errc are each closed at most once and exactly once when the
\* producer has returned, at most one error is sent on errc, the lines
\* received are the first lines of the file in order, and once the context
\* is cancelled a producer that has not returned can always take its next
\* step, whether or not anybody receives.
C39_ReadTargetsProtocol ==
    /\ rtOutCloses <= 1
    /\ rtErrCloses <= 1
    /\ Len(rtErrc) <= 1
    /\ rtpc = "done" => rtOutCloses = 1 /\ rtErrCloses = 1
    /\ rtDelivered = [i \in 1..Len(rtDelivered) |-> i]
    /\ Len(rtDelivered) <= rtNext
    /\ (ctxErr # "nil" /\ rtpc \in {"open", "scan", "select"}) => ENABLED ProducerStep

\* A line was delivered, the consumer left, the context was cancelled with
\* the next line in hand, and the producer returned with ctx.Err() on errc.
C39_Witness ==
    /\ rtpc = "done"
    /\ rtConsumer = "gone"
    /\ ctxErr # "nil"
    /\ Len(rtDelivered) = 1
    /\ rtNext = 2
    /\ Len(rtErrc) = 1

\* C40: when runScan reports that the scan has finished and the context was
\* not cancelled, every target read from the targets file has been
\* evaluated against every template of allTemplates.
C40_EveryTargetEveryTemplate ==
    (scanpc = "finished" /\ ctxErr = "nil") =>
        \A tpl \in ScanTemplates : \A t \in 1..fed : calls[tpl][t] >= 1
====
